---- MODULE Spec2Model ----
(***************************************************************************)
(* mcpz: the session store (src/http/session.rs), the HTTP adapter         *)
(* (src/http/handlers.rs, src/http/server.rs) and the protocol dispatcher  *)
(* (src/servers/common.rs) as state machines, with the guards of the       *)
(* backends (src/servers/shell.rs, sql.rs, filesystem.rs) and the TLS      *)
(* bootstrap (src/http/tls.rs).                                            *)
(*                                                                         *)
(* Specifications:                                                         *)
(*   SpecApi       the SessionManager called directly by one task (as its  *)
(*                 unit tests call it), the clock advancing in between;    *)
(*   SpecLock      the SessionManager under concurrent callers and the     *)
(*                 cleanup task, the grant of a guard a step of its own;   *)
(*   Spec          the HTTP server: concurrent handle_post / handle_get /  *)
(*                 handle_delete handlers next to the cleanup task;        *)
(*   SpecClient    the HTTP server serving one sequential client;          *)
(*   SpecSession   the same, the client creating fewer sessions;           *)
(*   SpecSweep     the same, the cleanup task scheduled fairly;            *)
(*   SpecGuard     the same, the grant of a guard a step of its own;       *)
(*   SpecDispatch  McpServer::handle_request applied to bounded requests;  *)
(*   SpecStdio     McpServer::run reading the lines of its standard input; *)
(*   SpecOrigin    validate_origin applied to bounded Origin headers and   *)
(*                 allow-lists;                                            *)
(*   SpecCommand   the shell backend's is_command_allowed applied to       *)
(*                 bounded commands and pattern lists;                     *)
(*   SpecShell     the shell backend's execute_command applied to          *)
(*                 bounded commands, configurations and process outcomes;  *)
(*   SpecStatement the SQL backend's is_statement_allowed applied to       *)
(*                 bounded statements in either access mode;               *)
(*   SpecSql       the SQL backend's call_tool applied to bounded tool     *)
(*                 calls in either access mode;                            *)
(*   SpecPath      the filesystem backend's validate_path applied to       *)
(*                 candidate paths on a directory tree;                    *)
(*   SpecTools     the filesystem tools called with candidate paths;       *)
(*   SpecTls       TlsConfig::load_or_generate applied to its arguments    *)
(*                 and a cache directory.                                  *)
(*                                                                         *)
(* Time is a counter of clock units: Instant::now() reads it, and it       *)
(* advances between any two steps (Tick). Uuid::new_v4() is modelled by    *)
(* its contract: a value no earlier call returned.                         *)
(***************************************************************************)
EXTENDS Integers, Sequences, FiniteSets, TLC

\* ------------------------------------------------------------------ bounds
MaxTime == 2      \* the clock runs 0..MaxTime
MaxTtl == 1       \* SessionManager::new(ttl) with ttl in 0..MaxTtl
MaxIds == 2       \* direct callers call create_session at most MaxIds times
MaxInit == 1      \* the HTTP clients create at most MaxInit sessions, and
MaxClientInit == 2  \* a client alone at most MaxClientInit
session_ttl == 1  \* HttpServerConfig.session_ttl, in clock units

Handlers == {"h1", "h2"}          \* concurrently running request handlers / callers
Sweeper == "sweeper"              \* the task spawned by start_cleanup_task
Tasks == Handlers \cup {Sweeper}

\* Uuid::new_v4() returns 1, 2, ... in this order; 0 is an id it never returns.
ClientIds == 0..MaxIds            \* what a direct caller may pass as id
HeaderIds(max) == 1..max           \* what an HTTP client may send as mcp-session-id

VARIABLES
    sessions,     \* SessionManager.sessions: the HashMap<String, Session>
    ttl,          \* SessionManager.ttl
    now,          \* the monotonic clock Instant::now() reads
    uuids,        \* how many identifiers Uuid::new_v4() has returned
    lock,         \* the RwLock: lock[t] \in {"none", "read", "write"} is t's guard
    task,         \* each task's position and locals (see Idle)
    last,         \* the call that returned in the step just taken (NoCall: none did)
    dreq,         \* SpecDispatch: the request handed to handle_request
    dresp,        \* SpecDispatch: what handle_request returned
    calls,        \* SpecDispatch: the tools call_tool was called with
    line,         \* SpecStdio: the line run() has read last
    running       \* SpecStdio: run()'s loop has not ended

vars == <<sessions, ttl, now, uuids, lock, task, last, dreq, dresp, calls, line,
          running>>

dispVars == <<dreq, dresp, calls, line, running>>

\* ------------------------------------------------------- session.rs: data

\* Session::new(id): both timestamps are one reading of the clock.
Session_new(id, t) ==
    [id |-> id, created_at |-> t, last_activity |-> t, initialized |-> FALSE]

\* Instant::elapsed(): the time since the instant, read at clock value t.
elapsed(instant, t) == IF t >= instant THEN t - instant ELSE 0

\* HashMap::insert / HashMap::remove on the store.
MapInsert(m, k, v) == [x \in DOMAIN m \cup {k} |-> IF x = k THEN v ELSE m[x]]
MapRemove(m, k) == [x \in DOMAIN m \ {k} |-> m[x]]

\* Return values. Result<(), SessionError>: Ok, NotFound, Expired; the others carry
\* the value returned.
Ok == [tag |-> "Ok"]
NotFound == [tag |-> "NotFound"]
Expired == [tag |-> "Expired"]
OkBool(b) == [tag |-> "OkBool", b |-> b]       \* is_initialized's Ok(bool)
Bool(b) == [tag |-> "bool", b |-> b]           \* delete_session's bool
Usize(n) == [tag |-> "usize", n |-> n]         \* cleanup_expired, session_count
IdStr(i) == [tag |-> "String", s |-> i]        \* create_session's id
NoSession == [tag |-> "none"]

\* ------------------------------------------- session.rs: the operations
\* Each operator is the body an operation runs while it holds the lock, as a
\* function of the store (and the clock): the new store and the return value.

\* create_session that hands out the id without storing the session.
create_session_unstored(store, session) ==
    [store |-> store, ret |-> IdStr(session.id)]

create_session(store, session) ==
    [store |-> MapInsert(store, session.id, session), ret |-> IdStr(session.id)]

\* validate_session that takes an id without record for a valid one.
validate_session_any(store, id, t, ttl_) ==
    [store |-> store,
     ret |-> IF id \in DOMAIN store /\ elapsed(store[id].last_activity, t) > ttl_
               THEN Expired ELSE Ok]

\* validate_session with `>=` for `>`: a session expires one clock unit early.
validate_session_ge(store, id, t, ttl_) ==
    [store |-> store,
     ret |-> IF id \in DOMAIN store
               THEN IF elapsed(store[id].last_activity, t) >= ttl_ THEN Expired ELSE Ok
               ELSE NotFound]

\* validate_session that never finds a session expired.
validate_session_unexpiring(store, id, t, ttl_) ==
    [store |-> store, ret |-> IF id \in DOMAIN store THEN Ok ELSE NotFound]

\* validate_session that drops the record it finds expired.
validate_session_evict(store, id, t, ttl_) ==
    IF id \in DOMAIN store
      THEN IF elapsed(store[id].last_activity, t) > ttl_
             THEN [store |-> MapRemove(store, id), ret |-> Expired]
             ELSE [store |-> store, ret |-> Ok]
      ELSE [store |-> store, ret |-> NotFound]

validate_session(store, id, t, ttl_) ==
    [store |-> store,
     ret |-> IF id \in DOMAIN store
               THEN IF elapsed(store[id].last_activity, t) > ttl_ THEN Expired ELSE Ok
               ELSE NotFound]

\* mark_initialized that sets the flag and leaves last_activity as it was.
mark_initialized_flag_only(store, id, t) ==
    IF id \in DOMAIN store
      THEN [store |-> [store EXCEPT ![id].initialized = TRUE], ret |-> Ok]
      ELSE [store |-> store, ret |-> NotFound]

mark_initialized(store, id, t) ==
    IF id \in DOMAIN store
      THEN [store |-> [store EXCEPT ![id].initialized = TRUE, ![id].last_activity = t],
            ret |-> Ok]
      ELSE [store |-> store, ret |-> NotFound]

is_initialized(store, id) ==
    [store |-> store,
     ret |-> IF id \in DOMAIN store THEN OkBool(store[id].initialized) ELSE NotFound]

\* touch_session as an upsert: an unknown id gets a record.
touch_session_upsert(store, id, t) ==
    [store |-> MapInsert(store, id, [Session_new(id, t) EXCEPT !.last_activity = t]),
     ret |-> IF id \in DOMAIN store THEN Ok ELSE NotFound]

\* touch_session that resets last_activity to the clock's origin.
touch_session_reset(store, id, t) ==
    IF id \in DOMAIN store
      THEN [store |-> [store EXCEPT ![id].last_activity = 0], ret |-> Ok]
      ELSE [store |-> store, ret |-> NotFound]

\* touch_session that finds the record and leaves last_activity as it was.
touch_session_idle(store, id, t) ==
    [store |-> store, ret |-> IF id \in DOMAIN store THEN Ok ELSE NotFound]

touch_session(store, id, t) ==
    IF id \in DOMAIN store
      THEN [store |-> [store EXCEPT ![id].last_activity = t], ret |-> Ok]
      ELSE [store |-> store, ret |-> NotFound]

\* delete_session that reports the record but leaves it in the map.
delete_session_keep(store, id) ==
    [store |-> store, ret |-> Bool(id \in DOMAIN store)]

\* delete_session that empties the store when it finds the record.
delete_session_clear(store, id) ==
    [store |-> IF id \in DOMAIN store THEN <<>> ELSE store,
     ret |-> Bool(id \in DOMAIN store)]

delete_session(store, id) ==
    [store |-> MapRemove(store, id), ret |-> Bool(id \in DOMAIN store)]

\* sessions.retain(|_, s| s.last_activity.elapsed() <= self.ttl); before - len.
\* retain with `<` for `<=`: a record aged exactly ttl is swept.
Retained_lt(store, t, ttl_) ==
    {id \in DOMAIN store : elapsed(store[id].last_activity, t) < ttl_}

Retained(store, t, ttl_) ==
    {id \in DOMAIN store : elapsed(store[id].last_activity, t) <= ttl_}

\* cleanup_expired that finds nothing to sweep.
cleanup_expired_idle(store, t, ttl_) ==
    [store |-> store, ret |-> Usize(0)]

cleanup_expired(store, t, ttl_) ==
    LET kept == Retained(store, t, ttl_)
    IN  [store |-> [id \in kept |-> store[id]],
         ret |-> Usize(Cardinality(DOMAIN store) - Cardinality(kept))]

session_count(store) ==
    [store |-> store, ret |-> Usize(Cardinality(DOMAIN store))]

\* touch_session under a read guard.
LockMode_touch_read(o) ==
    IF o \in {"validate_session", "is_initialized", "session_count", "touch_session"}
      THEN "read" ELSE "write"

\* Which guard each operation takes: self.sessions.read() or self.sessions.write().
LockMode(o) ==
    IF o \in {"validate_session", "is_initialized", "session_count"}
      THEN "read" ELSE "write"

\* tokio::sync::RwLock: a read guard is granted while no write guard is held, a
\* write guard while no guard at all is held.
CanLock(mode) ==
    IF mode = "read"
      THEN \A u \in Tasks : lock[u] # "write"
      ELSE \A u \in Tasks : lock[u] = "none"

\* ------------------------------------------------ common.rs: JSON values
\* serde_json::Value, tagged; an object is a function from its keys. Absent is the
\* None of Option<Value> (a key that is not there, a request without id).
Absent == [t |-> "absent"]
JNull == [t |-> "null"]
JStr(x) == [t |-> "str", s |-> x]
JNum(n) == [t |-> "num", n |-> n]
JBool(b) == [t |-> "bool", b |-> b]
JArr(q) == [t |-> "arr", a |-> q]
JObj(f) == [t |-> "obj", o |-> f]
EmptyObj == JObj(<<>>)

\* Value::get(key): Some(value) for an object that has the key, None otherwise.
json_get(v, k) == IF v.t = "obj" /\ k \in DOMAIN v.o THEN v.o[k] ELSE Absent
\* Option::is_some
is_some(x) == x # Absent

\* JsonRpcRequest as serde decodes it: params defaults to Value::Null.
JsonRpcRequest(id, method, params) ==
    [jsonrpc |-> "2.0", id |-> id, method |-> method, params |-> params]
NoRequest == [jsonrpc |-> "none"]

\* JsonRpcResponse::error that fills in a null result next to the error.
JsonRpcResponse_error_and_result(id, code, message) ==
    [jsonrpc |-> "2.0", id |-> id, result |-> JNull,
     error |-> [t |-> "error", code |-> code, message |-> message]]

\* JsonRpcResponse::success / error / method_not_found / internal_error / parse_error
JsonRpcResponse_success(id, result) ==
    [jsonrpc |-> "2.0", id |-> id, result |-> result, error |-> Absent]
JsonRpcResponse_error(id, code, message) ==
    [jsonrpc |-> "2.0", id |-> id, result |-> Absent,
     error |-> [t |-> "error", code |-> code, message |-> message]]
\* method_not_found that does not name the method.
JsonRpcResponse_method_not_found_unnamed(id, method) ==
    JsonRpcResponse_error(id, -32601, <<"Method not found">>)

\* format!("Method not found: {}", method): the message is the text and the name.
JsonRpcResponse_method_not_found(id, method) ==
    JsonRpcResponse_error(id, -32601, <<"Method not found: ", method>>)
JsonRpcResponse_internal_error(id, message) ==
    JsonRpcResponse_error(id, -32603, message)
\* parse_error that reports an invalid request instead.
JsonRpcResponse_parse_error_invalid(message) ==
    JsonRpcResponse_error(Absent, -32600, message)

JsonRpcResponse_parse_error(message) ==
    JsonRpcResponse_error(Absent, -32700, message)
NoResponse == [jsonrpc |-> "none"]     \* handle_request's None

\* text_content / error_content
text_content(text) ==
    JObj([content |-> JArr(<<JObj([type |-> JStr("text"), text |-> JStr(text)])>>)])
error_content(message) ==
    JObj([content |-> JArr(<<JObj([type |-> JStr("text"),
                                   text |-> JStr(<<"Error: ", message>>)])>>),
          isError |-> JBool(TRUE)])

\* anyhow's Result<Value>
ResOk(v) == [ok |-> TRUE, v |-> v]
ResErr(m) == [ok |-> FALSE, e |-> m]

\* ------------------------------------------------ the backend (shell.rs)
\* impl McpServer for ShellServer: name, version, tools, call_tool.
server_name == "mcpz-shell"
server_version == "CARGO_PKG_VERSION"
tools == <<JObj([name |-> JStr("execute_command"),
                 description |-> JStr("Execute a shell command and return its output"),
                 inputSchema |-> JObj([type |-> JStr("object"),
                                       required |-> JArr(<<JStr("command")>>)])])>>

\* A command and a pattern are the sequences of their characters.
Ls == <<"l", "s">>
RmRf == <<"r", "m", " ", "-", "r", "f">>
Rmdir == <<"r", "m", "d", "i", "r">>

\* ShellServerConfig: allow_patterns and deny_patterns of the running server.
allow_patterns == <<>>
deny_patterns == << <<"r", "m", "*">> >>

\* str::starts_with on character sequences
word_starts_with(word, prefix) ==
    /\ Len(prefix) <= Len(word)
    /\ SubSeq(word, 1, Len(prefix)) = prefix

\* char::is_whitespace, for the characters of the commands
is_whitespace(c) == c \in {" ", "\t"}
Least(S) == CHOOSE i \in S : \A j \in S : i <= j

\* command.split_whitespace().next().unwrap_or(""): the characters from the first
\* that is no whitespace up to the next whitespace, or the end.
first_word(command) ==
    LET words == {i \in 1..Len(command) : ~is_whitespace(command[i])}
    IN  IF words = {}
          THEN <<>>
          ELSE LET start == Least(words)
                   gaps == {j \in start..Len(command) : is_whitespace(command[j])}
               IN  SubSeq(command, start,
                          IF gaps = {} THEN Len(command) ELSE Least(gaps) - 1)

\* ShellServerConfig::matches_pattern
matches_pattern(command, pattern) ==
    LET cmd_first_word == first_word(command)
    IN  IF pattern # <<>> /\ pattern[Len(pattern)] = "*"
          THEN word_starts_with(cmd_first_word, SubSeq(pattern, 1, Len(pattern) - 1))
          ELSE cmd_first_word = pattern

\* is_command_allowed that looks at the allow list before the deny list.
is_command_allowed_allow_first(allow, deny, command) ==
    IF \E i \in 1..Len(allow) : matches_pattern(command, allow[i])
      THEN TRUE
      ELSE IF \E i \in 1..Len(deny) : matches_pattern(command, deny[i])
             THEN FALSE
             ELSE allow = <<>>

\* ShellServerConfig::is_command_allowed
is_command_allowed(allow, deny, command) ==
    IF \E i \in 1..Len(deny) : matches_pattern(command, deny[i])
      THEN FALSE
      ELSE IF allow = <<>>
             THEN TRUE
             ELSE \E i \in 1..Len(allow) : matches_pattern(command, allow[i])

\* struct ShellCommandResult
ShellCommandResult(command, output, return_code) ==
    [command |-> command, output |-> output, return_code |-> return_code]

\* What Command::output returns: the output of the process that ran (code is its
\* exit code, None when a signal ended it), or the error of the spawn.
OutputOk(stdout, stderr, code) ==
    [ok |-> TRUE, stdout |-> stdout, stderr |-> stderr, code |-> code]
OutputErr(e) == [ok |-> FALSE, e |-> e]
\* Command::new(&self.config.shell) with .arg("-c").arg(command)
shell == "/bin/sh"
ShellCommand(command) == [program |-> shell, args |-> <<"-c", command>>]

\* execute_command that runs the command and looks at the guard afterwards.
ShellServer_execute_command_unguarded(allow, deny, include_stderr, command, output) ==
    [spawned |-> <<ShellCommand(command)>>,
     result |-> IF ~is_command_allowed(allow, deny, command)
                  THEN ShellCommandResult(command, "Command denied by security policy",
                                          -1)
                  ELSE ShellCommandResult(command, "stdout", 0)]

\* ShellServer::execute_command under a configuration, cmd.output() returning
\* output: spawned are the commands handed to Command::output, result the
\* ShellCommandResult returned.
ShellServer_execute_command(allow, deny, include_stderr, command, output) ==
    IF ~is_command_allowed(allow, deny, command)
      THEN [spawned |-> <<>>,
            result |-> ShellCommandResult(command, "Command denied by security policy",
                                          -1)]
      ELSE [spawned |-> <<ShellCommand(command)>>,
            result |->
              IF output.ok
                THEN ShellCommandResult(
                       command,
                       IF include_stderr THEN output.stdout \o output.stderr
                                         ELSE output.stdout,
                       IF output.code.some THEN output.code.v ELSE -1)
                ELSE ShellCommandResult(command, <<"Failed to execute: ", output.e>>,
                                        -1)]

\* ShellServer::execute_command under the configuration of the dispatcher's server,
\* for a run that succeeds.
execute_command(command) ==
    ShellServer_execute_command(allow_patterns, deny_patterns, FALSE, command,
                                [ok |-> TRUE, stdout |-> "stdout", stderr |-> "",
                                 code |-> [some |-> TRUE, v |-> 0]]).result

\* ShellServer::call_tool
call_tool(name, arguments) ==
    IF name # "execute_command"
      THEN ResOk(error_content(<<"Unknown tool: ", name>>))
      ELSE LET command == json_get(arguments, "command")
           IN  IF command.t # "str"
                 THEN ResErr("Missing command argument")
                 ELSE ResOk(text_content(execute_command(command.s)))

\* ------------------------------------------- common.rs: the dispatcher
\* handle_initialize that leaves the protocol version out.
handle_initialize_unversioned ==
    JObj([capabilities |-> JObj([tools |-> EmptyObj]),
          serverInfo |-> JObj([name |-> JStr(server_name),
                               version |-> JStr(server_version)])])

handle_initialize ==
    JObj([protocolVersion |-> JStr("2024-11-05"),
          capabilities |-> JObj([tools |-> EmptyObj]),
          serverInfo |-> JObj([name |-> JStr(server_name),
                               version |-> JStr(server_version)])])

handle_tools_list == JObj([tools |-> JArr(tools)])

handle_tools_call(params) ==
    LET name == json_get(params, "name")
    IN  IF name.t # "str"
          THEN [res |-> ResErr("Missing tool name"), called |-> <<>>]
          ELSE LET a == json_get(params, "arguments")
                   arguments == IF is_some(a) THEN a ELSE EmptyObj
               IN  [res |-> call_tool(name.s, arguments), called |-> <<name.s>>]

\* Only the bare name is taken for the notification.
IsNotification_bare(method) == method = "initialized"

\* Only the namespaced name is taken for the notification.
IsNotification_namespaced(method) == method = "notifications/initialized"

\* The methods that produce no response.
IsNotification(method) == method \in {"initialized", "notifications/initialized"}

\* McpServer::handle_request: the Option<JsonRpcResponse> (NoResponse for None) and
\* the tools call_tool was called with.
handle_request(r) ==
    CASE r.method = "initialize" ->
           [resp |-> JsonRpcResponse_success(r.id, handle_initialize), called |-> <<>>]
      [] IsNotification(r.method) ->
           [resp |-> NoResponse, called |-> <<>>]
      [] r.method = "tools/list" ->
           [resp |-> JsonRpcResponse_success(r.id, handle_tools_list), called |-> <<>>]
      [] r.method = "tools/call" ->
           LET c == handle_tools_call(r.params)
           IN  [resp |-> IF c.res.ok
                           THEN JsonRpcResponse_success(r.id, c.res.v)
                           ELSE JsonRpcResponse_internal_error(r.id, c.res.e),
                called |-> c.called]
      [] OTHER ->
           [resp |-> JsonRpcResponse_method_not_found(r.id, r.method), called |-> <<>>]

\* --------------------------------------------------- handlers.rs: helpers
Some(x) == [some |-> TRUE, v |-> x]
NoneOpt == [some |-> FALSE]

\* An Origin header value is the sequence of the pieces of its text (scheme, host,
\* rest), so that str::starts_with is a comparison of leading pieces.
NoOrigin == <<>>                                \* the request has no Origin header
NotAscii == <<"\\xff">>                          \* a value HeaderValue::to_str rejects
Localhost == <<"http://", "localhost", ":3000">>
EvilCom == <<"https://", "evil.com">>
starts_with(origin, prefix) ==
    /\ Len(origin) >= Len(prefix)
    /\ SubSeq(origin, 1, Len(prefix)) = prefix
contains(list, x) == \E i \in 1..Len(list) : list[i] = x

\* AppState.allowed_origins (HttpServerConfig::new: the --origins list, default empty).
allowed_origins == << <<"https://", "a.com">> >>

\* validate_origin: Ok(()) is 200 here, Err(status) the status.
validate_origin(origin, allowed) ==
    IF origin = NoOrigin THEN 200
    ELSE IF origin = NotAscii THEN 400
    ELSE IF \/ starts_with(origin, <<"http://", "localhost">>)
            \/ starts_with(origin, <<"http://", "127.0.0.1">>)
            \/ starts_with(origin, <<"https://", "localhost">>)
            \/ starts_with(origin, <<"https://", "127.0.0.1">>)
      THEN 200
    ELSE IF contains(allowed, origin) \/ contains(allowed, <<"*">>) THEN 200
    ELSE 403

\* ------------------------------------------- common.rs: the local channel
\* A line of stdin is the JSON value it is the text of, or text that is no JSON.
NoLine == [t |-> "none"]
EmptyLine == [t |-> "text", s |-> ""]
NotJson == [t |-> "text", s |-> "{not json"]
SpacesLine == [t |-> "text", s |-> "  "]

\* serde_json::to_string of a request, as a client writes it: the id is left out when
\* there is none, the params when they are null.
RequestLine(r) ==
    LET base == [jsonrpc |-> JStr(r.jsonrpc), method |-> JStr(r.method)]
        keys == {"jsonrpc", "method"}
                  \cup (IF r.id = Absent THEN {} ELSE {"id"})
                  \cup (IF r.params = JNull THEN {} ELSE {"params"})
    IN  JObj([k \in keys |-> CASE k = "id" -> r.id
                               [] k = "params" -> r.params
                               [] OTHER -> base[k]])

\* from_str that takes the id for a required member.
from_str_id_required(l) ==
    IF l.t # "obj" THEN ResErr("expected value")
    ELSE IF json_get(l, "jsonrpc").t # "str" THEN ResErr("missing field jsonrpc")
    ELSE IF json_get(l, "method").t # "str" THEN ResErr("missing field method")
    ELSE IF json_get(l, "id") \in {Absent, JNull} THEN ResErr("missing field id")
    ELSE ResOk([jsonrpc |-> json_get(l, "jsonrpc").s,
                id |-> json_get(l, "id"),
                method |-> json_get(l, "method").s,
                params |-> IF is_some(json_get(l, "params"))
                             THEN json_get(l, "params") ELSE JNull])

\* serde_json::from_str::<JsonRpcRequest>: jsonrpc and method are required strings, a
\* missing or null id is None, missing params are Value::Null.
from_str(l) ==
    IF l.t # "obj" THEN ResErr("expected value")
    ELSE IF json_get(l, "jsonrpc").t # "str" THEN ResErr("missing field jsonrpc")
    ELSE IF json_get(l, "method").t # "str" THEN ResErr("missing field method")
    ELSE ResOk([jsonrpc |-> json_get(l, "jsonrpc").s,
                id |-> IF json_get(l, "id") = JNull THEN Absent ELSE json_get(l, "id"),
                method |-> json_get(l, "method").s,
                params |-> IF is_some(json_get(l, "params"))
                             THEN json_get(l, "params") ELSE JNull])

\* ------------------------------------------------------------- inputs
\* The decoded bodies a client POSTs (ParseFail: a body serde_json rejects).
ParseFail == [jsonrpc |-> "not json"]
ToolCallParams ==
    JObj([name |-> JStr("execute_command"),
          arguments |-> JObj([command |-> JStr(Ls)])])
HttpRequests ==
    { JsonRpcRequest(JNum(1), "initialize", EmptyObj),
      JsonRpcRequest(Absent, "notifications/initialized", JNull),
      JsonRpcRequest(Absent, "initialized", JNull),
      JsonRpcRequest(JNum(1), "tools/list", JNull),
      JsonRpcRequest(JNum(1), "tools/call", ToolCallParams) }
HttpBodies == HttpRequests \cup {ParseFail}
HttpOrigins == {NoOrigin, EvilCom, NotAscii}
\* get_session_id: the mcp-session-id header, if there is one.
HttpHeaders(max) == {NoneOpt} \cup {Some(i) : i \in HeaderIds(max)}

\* The requests handed to the dispatcher: every method it knows, names it does not
\* know, with and without id, over params of every shape handle_tools_call tells apart.
DispatchMethods ==
    {"initialize", "initialized", "notifications/initialized", "tools/list",
     "tools/call", "ping", "Initialized", "notifications/cancelled", ""}
DispatchIds == {Absent, JNum(1), JStr("a")}
DispatchParams ==
    { JNull, EmptyObj, ToolCallParams,
      JObj([name |-> JStr("execute_command")]),
      JObj([name |-> JStr("execute_command"), arguments |-> EmptyObj]),
      JObj([name |-> JStr("execute_command"),
            arguments |-> JObj([command |-> JNum(5)])]),
      JObj([name |-> JStr("no_such_tool"), arguments |-> EmptyObj]),
      JObj([name |-> JStr("no_such_tool")]),
      JObj([name |-> JNum(7), arguments |-> EmptyObj]),
      JObj([arguments |-> JObj([command |-> JStr(Ls)])]),
      JObj([name |-> JStr("execute_command"),
            arguments |-> JObj([command |-> JStr(RmRf)])]),
      JObj([name |-> JStr("execute_command"),
            arguments |-> JObj([command |-> JStr(Rmdir)])]) }
DispatchRequests ==
    {JsonRpcRequest(i, m, p) : i \in DispatchIds, m \in DispatchMethods,
                               p \in DispatchParams}

\* The lines a client writes to stdin: requests, a blank line, text that is no JSON,
\* and JSON objects that are no request (with and without an id member).
MalformedLines ==
    { NotJson, SpacesLine,
      JObj([id |-> JNum(7)]),
      JObj([jsonrpc |-> JStr("2.0"), id |-> JNum(7)]),
      JObj([jsonrpc |-> JStr("2.0"), id |-> JStr("a"), method |-> JNum(5)]),
      JObj([id |-> JNum(7), method |-> JStr("tools/list")]),
      JObj([jsonrpc |-> JStr("2.0"), params |-> EmptyObj]) }
StdioLines ==
    {EmptyLine} \cup MalformedLines \cup {RequestLine(r) : r \in DispatchRequests}
       \cup {JObj([jsonrpc |-> JStr("2.0"), id |-> JNull, method |-> JStr("tools/list")])}

ApiOps == {"create_session", "validate_session", "mark_initialized", "is_initialized",
           "touch_session", "delete_session", "cleanup_expired", "session_count"}
HasIdArg(o) == o \notin {"create_session", "cleanup_expired", "session_count"}

\* ------------------------------------------------------------ returns
\* What `last` records: a SessionManager call that returned to a direct caller or to
\* the cleanup task, or an HTTP request (verb, the decoded method, the
\* mcp-session-id header the handler read) with the response its handler returned
\* (status, the mcp-session-id header, the body: the encoded JsonRpcResponse, or
\* NoResponse for an empty body).
NoCall == [kind |-> "none"]
Returned(o, a, r) == [kind |-> "call", op |-> o, arg |-> a, ret |-> r]
Http(verb, method, header, status, sid, body) ==
    [kind |-> "http", verb |-> verb, method |-> method, hdr |-> header,
     status |-> status, sid |-> sid, body |-> body]

\* ------------------------------------------------------------- steps
\* A task: pc is its position ("idle": it runs nothing; "call": it awaits the guard
\* of operation op; "locked": it holds that guard; "stream": handle_get's event
\* stream is open), caller is
\* what it runs ("api": a direct call, "POST", "GET", "DELETE", "sweep": the cleanup
\* task), arg is op's id argument (the handler's session_id), sess is
\* create_session's local `session`, req is handle_post's decoded `request`, hdr the
\* request's mcp-session-id header, response handle_post's local `response`.
Idle ==
    [pc |-> "idle", caller |-> "none", op |-> "none", arg |-> 0, sess |-> NoSession,
     req |-> NoRequest, hdr |-> NoneOpt, response |-> NoResponse]
\* start_cleanup_task's loop: interval_timer.tick(), then cleanup_expired.
SweepLoop == [Idle EXCEPT !.pc = "call", !.caller = "sweep", !.op = "cleanup_expired"]

Become(t, r) == task' = [task EXCEPT ![t] = r]

\* A handler returns a response: its task ends.
Reply(t, verb, method, header, status, sid, body) ==
    /\ Become(t, Idle)
    /\ last' = Http(verb, method, header, status, sid, body)
\* A handler returns before it has looked at the session: Err(status), no header of
\* the response set, no body.
Reject(t, verb, method, status) ==
    Reply(t, verb, method, NoneOpt, status, NoneOpt, NoResponse)
\* The task goes on to call operation o with id a (it awaits o's guard next).
Call(t, r, o, a) ==
    /\ Become(t, [r EXCEPT !.pc = "call", !.op = o, !.arg = a])
    /\ last' = NoCall
\* Uuid::new_v4() and Session::new: the id is fresh, the timestamps are read now,
\* before the write guard is awaited. At most max sessions are created.
NewSession(t, r, max) ==
    /\ uuids < max
    /\ uuids' = uuids + 1
    /\ Call(t, [r EXCEPT !.sess = Session_new(uuids + 1, now)], "create_session",
            uuids + 1)

\* The step hands no request to the dispatcher: call_tool is not called in it.
NoDispatch == calls' = <<>>

\* handle_post, steps 4 to 6, with session_id sid: handle_request, then 202, or the
\* call of mark_initialized, or 200. Nothing is awaited between the return of
\* create_session or touch_session and this, and it does not read the store.
dispatch(t, me, sid) ==
    LET r == handle_request(me.req).resp
    IN  /\ calls' = handle_request(me.req).called
        /\ IF r = NoResponse
             THEN Reply(t, "POST", me.req.method, me.hdr, 202, Some(sid), NoResponse)
           ELSE IF /\ is_some(r.result)
                   /\ is_some(json_get(r.result, "protocolVersion"))
             THEN Call(t, [me EXCEPT !.response = r], "mark_initialized", sid)
           ELSE Reply(t, "POST", me.req.method, me.hdr, 200, Some(sid), r)

\* handle_post up to the return of its first SessionManager call: origin, decode,
\* then create_session and the dispatch, or validate_session. The step is the one in
\* which that call holds its guard; what precedes it reads nothing shared but the
\* clock: Session::new has read it at t0, when the request arrived, not later than now.
handle_post(t, origin, body, header) ==
    /\ task[t].pc = "idle"
    /\ LET o == validate_origin(origin, allowed_origins)
           me == [Idle EXCEPT !.caller = "POST", !.req = body, !.hdr = header]
       IN  IF o # 200
             THEN Reject(t, "POST", "none", o) /\ UNCHANGED <<sessions, uuids>>
                  /\ NoDispatch
           ELSE IF body = ParseFail
             THEN Reject(t, "POST", "none", 400) /\ UNCHANGED <<sessions, uuids>>
                  /\ NoDispatch
           ELSE IF body.method = "initialize"
             THEN \E t0 \in 0..now :
                    LET r == create_session(sessions, Session_new(uuids + 1, t0))
                    IN  /\ uuids' = uuids + 1
                        /\ sessions' = r.store
                        /\ dispatch(t, me, r.ret.s)
           ELSE IF ~header.some
             THEN Reject(t, "POST", body.method, 400) /\ UNCHANGED <<sessions, uuids>>
                  /\ NoDispatch
           ELSE LET r == validate_session(sessions, header.v, now, ttl)
                IN  /\ sessions' = r.store
                    /\ UNCHANGED uuids
                    /\ NoDispatch
                    /\ IF r.ret = Ok
                         THEN Call(t, me, "touch_session", header.v)
                         ELSE Reply(t, "POST", body.method, header, 404, NoneOpt,
                                    NoResponse)
    /\ UNCHANGED <<ttl, now, lock, dreq, dresp, line, running>>

\* handle_get up to the return of validate_session.
handle_get(t, origin, header) ==
    /\ task[t].pc = "idle"
    /\ LET o == validate_origin(origin, allowed_origins)
           me == [Idle EXCEPT !.caller = "GET", !.hdr = header]
       IN  IF o # 200 THEN Reject(t, "GET", "none", o) /\ UNCHANGED sessions
           ELSE IF ~header.some
             THEN Reject(t, "GET", "none", 400) /\ UNCHANGED sessions
           ELSE LET r == validate_session(sessions, header.v, now, ttl)
                IN  /\ sessions' = r.store
                    /\ IF r.ret = Ok
                         THEN Call(t, me, "touch_session", header.v)
                         ELSE Reply(t, "GET", "none", header, 404, NoneOpt, NoResponse)
    /\ UNCHANGED <<ttl, now, uuids, lock, dreq, dresp, line, running>>
    /\ NoDispatch

\* handle_delete: its one SessionManager call is delete_session.
handle_delete(t, origin, header) ==
    /\ task[t].pc = "idle"
    /\ IF validate_origin(origin, allowed_origins) # 200
         THEN Reject(t, "DELETE", "none", 403) /\ UNCHANGED sessions
       ELSE IF ~header.some
         THEN Reject(t, "DELETE", "none", 400) /\ UNCHANGED sessions
       ELSE LET r == delete_session(sessions, header.v)
            IN  /\ sessions' = r.store
                /\ Reply(t, "DELETE", "none", header, IF r.ret.b THEN 200 ELSE 404,
                         NoneOpt, NoResponse)
    /\ UNCHANGED <<ttl, now, uuids, lock, dreq, dresp, line, running>>
    /\ NoDispatch

\* A task calls a SessionManager operation directly.
ApiCall(t, o, id) ==
    /\ task[t].pc = "idle"
    /\ LET r == [Idle EXCEPT !.caller = "api"]
       IN  IF o = "create_session"
             THEN NewSession(t, r, MaxIds)
             ELSE Call(t, r, o, IF HasIdArg(o) THEN id ELSE 0) /\ UNCHANGED uuids
    /\ UNCHANGED <<sessions, ttl, now, lock, dreq, dresp, line, running>>
    /\ NoDispatch

\* self.sessions.read().await / self.sessions.write().await is granted.
Lock(t) ==
    /\ task[t].pc = "call"
    /\ CanLock(LockMode(task[t].op))
    /\ lock' = [lock EXCEPT ![t] = LockMode(task[t].op)]
    /\ Become(t, [task[t] EXCEPT !.pc = "locked"])
    /\ last' = NoCall
    /\ UNCHANGED <<sessions, ttl, now, uuids, dreq, dresp, line, running>>
    /\ NoDispatch

\* What the handler does with the return value r of the call it awaited, up to its
\* next await. The errors of touch_session and mark_initialized are dropped (.ok()).
handle_post_after(t, r) ==
    LET me == task[t]
    IN  CASE me.op = "touch_session" -> dispatch(t, me, me.arg)
          [] me.op = "mark_initialized" ->
               /\ Reply(t, "POST", me.req.method, me.hdr, 200, Some(me.arg), me.response)
               /\ NoDispatch

\* handle_get returns the event stream: the response is sent, the stream stays open.
handle_get_after(t, r) ==
    /\ Become(t, [task[t] EXCEPT !.pc = "stream", !.op = "none"])
    /\ last' = Http("GET", "none", task[t].hdr, 200, NoneOpt, NoResponse)
    /\ NoDispatch

After(t, r) ==
    CASE task[t].caller = "POST" -> handle_post_after(t, r)
      [] task[t].caller = "GET" -> handle_get_after(t, r)
      [] task[t].caller = "api" ->
           /\ Become(t, Idle) /\ last' = Returned(task[t].op, task[t].arg, r)
           /\ NoDispatch
      [] task[t].caller = "sweep" ->
           /\ Become(t, SweepLoop) /\ last' = Returned(task[t].op, task[t].arg, r)
           /\ NoDispatch

\* An operation that returns with its guard still held.
Run_guard_kept(t, from, o, r) ==
    /\ task[t].pc = from
    /\ from = "call" => CanLock(LockMode(o))
    /\ task[t].op = o
    /\ sessions' = r.store
    /\ lock' = [lock EXCEPT ![t] = LockMode(o)]
    /\ After(t, r.ret)
    /\ UNCHANGED <<ttl, now, uuids, dreq, dresp, line, running>>

\* The operation runs its body under the guard, drops the guard and returns. From
\* "locked" the guard was granted in a step before (Lock); from "call" it is granted
\* in this step.
Run(t, from, o, r) ==
    /\ task[t].pc = from
    /\ from = "call" => CanLock(LockMode(o))
    /\ task[t].op = o
    /\ sessions' = r.store
    /\ lock' = [lock EXCEPT ![t] = "none"]
    /\ After(t, r.ret)
    /\ UNCHANGED <<ttl, now, uuids, dreq, dresp, line, running>>

CreateSession(t, from) ==
    Run(t, from, "create_session", create_session(sessions, task[t].sess))
ValidateSession(t, from) ==
    Run(t, from, "validate_session", validate_session(sessions, task[t].arg, now, ttl))
MarkInitialized(t, from) ==
    Run(t, from, "mark_initialized", mark_initialized(sessions, task[t].arg, now))
IsInitialized(t, from) ==
    Run(t, from, "is_initialized", is_initialized(sessions, task[t].arg))
TouchSession(t, from) ==
    Run(t, from, "touch_session", touch_session(sessions, task[t].arg, now))
DeleteSession(t, from) ==
    Run(t, from, "delete_session", delete_session(sessions, task[t].arg))
CleanupExpired(t, from) ==
    Run(t, from, "cleanup_expired", cleanup_expired(sessions, now, ttl))
SessionCount(t, from) ==
    Run(t, from, "session_count", session_count(sessions))

\* The client of an open event stream disconnects.
StreamClose(t) ==
    /\ task[t].pc = "stream"
    /\ Become(t, Idle)
    /\ last' = NoCall
    /\ UNCHANGED <<sessions, ttl, now, uuids, lock, dreq, dresp, line, running>>
    /\ NoDispatch

\* What the event stream of handle_get sends: stream::pending yields no event, so
\* the only frames are those of Sse::keep_alive, a comment with the text "ping".
SseFrame(event, text) == [kind |-> "sse", event |-> event, text |-> text]
KeepAlive(t) ==
    /\ task[t].pc = "stream"
    /\ last' = SseFrame("comment", "ping")
    /\ UNCHANGED <<sessions, ttl, now, uuids, lock, task, dreq, dresp, line, running>>
    /\ NoDispatch

\* The clock advances.
Tick ==
    /\ now < MaxTime
    /\ now' = now + 1
    /\ last' = NoCall
    /\ UNCHANGED <<sessions, ttl, uuids, lock, task, dreq, dresp, line, running>>
    /\ NoDispatch

\* ------------------------------------------------------ specifications
EmptyStore == <<>>

\* SessionManager::new(ttl_): an empty store; no task runs but the cleanup task.
InitWith(ttl_) ==
    /\ sessions = EmptyStore
    /\ ttl = ttl_
    /\ now = 0
    /\ uuids = 0
    /\ lock = [t \in Tasks |-> "none"]
    /\ task = [t \in Tasks |-> IF t = Sweeper THEN SweepLoop ELSE Idle]
    /\ last = NoCall
    /\ dreq = NoRequest
    /\ dresp = NoResponse
    /\ calls = <<>>
    /\ line = NoLine
    /\ running = TRUE

\* The SessionManager under one direct caller: the operations one after the other,
\* the clock advancing between any two steps.
ApiCaller == "h1"
NextApi ==
    \/ \E o \in ApiOps, id \in ClientIds : ApiCall(ApiCaller, o, id)
    \/ CreateSession(ApiCaller, "call")
    \/ ValidateSession(ApiCaller, "call")
    \/ MarkInitialized(ApiCaller, "call")
    \/ IsInitialized(ApiCaller, "call")
    \/ TouchSession(ApiCaller, "call")
    \/ DeleteSession(ApiCaller, "call")
    \/ CleanupExpired(ApiCaller, "call")
    \/ SessionCount(ApiCaller, "call")
    \/ Tick

InitApi == \E d \in 0..MaxTtl : InitWith(d)

SpecApi == InitApi /\ [][NextApi]_vars

\* The SessionManager under concurrent direct callers and the cleanup task, the
\* grant of a guard being a step of its own.
NextLock ==
    \/ \E t \in Handlers, o \in ApiOps, id \in ClientIds : ApiCall(t, o, id)
    \/ \E t \in Tasks : Lock(t)
    \/ \E t \in Tasks : CreateSession(t, "locked")
    \/ \E t \in Tasks : ValidateSession(t, "locked")
    \/ \E t \in Tasks : MarkInitialized(t, "locked")
    \/ \E t \in Tasks : IsInitialized(t, "locked")
    \/ \E t \in Tasks : TouchSession(t, "locked")
    \/ \E t \in Tasks : DeleteSession(t, "locked")
    \/ \E t \in Tasks : CleanupExpired(t, "locked")
    \/ \E t \in Tasks : SessionCount(t, "locked")

SpecLock == InitApi /\ [][NextLock]_vars

\* The HTTP server: the three handlers, run by the tasks H, and the cleanup task;
\* at most max sessions are created.
HttpNext(H, max) ==
    \/ \E t \in H, o \in HttpOrigins, b \in HttpBodies, h \in HttpHeaders(max) :
          handle_post(t, o, b, h) /\ uuids' <= max
    \/ \E t \in H, o \in HttpOrigins, h \in HttpHeaders(max) : handle_get(t, o, h)
    \/ \E t \in H, o \in HttpOrigins, h \in HttpHeaders(max) : handle_delete(t, o, h)
    \/ \E t \in H : MarkInitialized(t, "call")
    \/ \E t \in H : TouchSession(t, "call")
    \/ CleanupExpired(Sweeper, "call")
    \/ \E t \in H : StreamClose(t)
    \/ \E t \in H : KeepAlive(t)
    \/ Tick

\* Requests handled concurrently.
Next == HttpNext(Handlers, MaxInit)

\* One client that sends its next request when it has the response to the last.
Client == "h1"
NextClient == HttpNext({Client}, MaxClientInit)

\* The dispatcher alone: handle_request applied to one request after the other.
HandleRequest(r) ==
    /\ dreq' = r
    /\ dresp' = handle_request(r).resp
    /\ calls' = handle_request(r).called
    /\ UNCHANGED <<sessions, ttl, now, uuids, lock, task, last, line, running>>

NextDispatch == \E r \in DispatchRequests : HandleRequest(r)

SpecDispatch == InitWith(session_ttl) /\ [][NextDispatch]_vars

\* McpServer::run, one turn of its loop: a line is read; a blank line is skipped, a
\* line that does not decode is answered with the parse error, a request is handed
\* to handle_request and its response, if any, written. dresp is the line written
\* to stdout in this turn (NoResponse: none), dreq the decoded request.
ReadLine(l) ==
    /\ running
    /\ line' = l
    /\ IF l = EmptyLine
         THEN dreq' = NoRequest /\ dresp' = NoResponse /\ calls' = <<>>
       ELSE IF ~from_str(l).ok
         THEN /\ dreq' = NoRequest
              /\ dresp' = JsonRpcResponse_parse_error(<<"Parse error: ", from_str(l).e>>)
              /\ calls' = <<>>
       ELSE /\ dreq' = from_str(l).v
            /\ dresp' = handle_request(from_str(l).v).resp
            /\ calls' = handle_request(from_str(l).v).called
    /\ UNCHANGED <<sessions, ttl, now, uuids, lock, task, last, running>>

\* End of input, or an error reading stdin: the loop ends and run returns Ok(()).
EndOfInput ==
    /\ running
    /\ running' = FALSE
    /\ UNCHANGED <<sessions, ttl, now, uuids, lock, task, last, dreq, dresp, calls, line>>

NextStdio == (\E l \in StdioLines : ReadLine(l)) \/ EndOfInput

SpecStdio == InitWith(session_ttl) /\ [][NextStdio]_vars

\* validate_origin applied to a request's Origin header under a configured
\* --origins list: `last` is the check that returned.
A_Com == <<"https://", "a.com">>
Wildcard == <<"*">>
OriginHeaders ==
    { NoOrigin, NotAscii, Localhost, EvilCom, A_Com, Wildcard,
      <<"http://", "localhost">>,
      <<"https://", "localhost", ".evil.com">>,
      <<"https://", "127.0.0.1", ".evil.com">>,
      <<"http://", "localhost", ".evil.com", ":8080">>,
      <<"http://", "127.0.0.1", ":8080">>,
      <<"https://", "127.0.0.1">>,
      <<"ftp://", "localhost">>,
      <<"http://", "a.com">>,
      <<"https://", "a.com", "/">> }
OriginLists ==
    { <<>>, <<A_Com>>, <<Wildcard>>, <<EvilCom>>, <<A_Com, EvilCom>>,
      <<A_Com, Wildcard>>, << <<"http://", "a.com">> >>,
      << <<"https://", "localhost">> >> }
OriginChecked(origin, allowed, status) ==
    [kind |-> "origin", origin |-> origin, allowed |-> allowed, status |-> status]

ValidateOrigin(origin, allowed) ==
    /\ last' = OriginChecked(origin, allowed, validate_origin(origin, allowed))
    /\ UNCHANGED <<sessions, ttl, now, uuids, lock, task, dispVars>>

NextOrigin == \E origin \in OriginHeaders, allowed \in OriginLists :
                 ValidateOrigin(origin, allowed)

SpecOrigin == InitWith(session_ttl) /\ [][NextOrigin]_vars

\* ------------------------------------------------ the SQL guard (sql.rs)
\* enum AccessMode
ReadOnly == "ReadOnly"
FullAccess == "FullAccess"
AccessModes == {ReadOnly, FullAccess}

\* A statement is the sequence of its characters. str::to_uppercase maps the letters
\* a..z to A..Z and leaves the other characters of the statements as they are.
LowerCase == <<"a", "b", "c", "d", "e", "f", "g", "h", "i", "j", "k", "l", "m", "n", "o", "p", "q", "r", "s", "t", "u", "v", "w", "x", "y", "z">>
UpperCase == <<"A", "B", "C", "D", "E", "F", "G", "H", "I", "J", "K", "L", "M", "N", "O", "P", "Q", "R", "S", "T", "U", "V", "W", "X", "Y", "Z">>
to_upper(c) ==
    IF \E i \in 1..Len(LowerCase) : LowerCase[i] = c
      THEN UpperCase[CHOOSE i \in 1..Len(LowerCase) : LowerCase[i] = c]
      ELSE c
to_uppercase(s) == [i \in 1..Len(s) |-> to_upper(s[i])]
\* str::trim: without the whitespace at either end
trim(s) ==
    LET inner == {i \in 1..Len(s) : ~is_whitespace(s[i])}
    IN  IF inner = {} THEN <<>>
        ELSE SubSeq(s, Least(inner), CHOOSE i \in inner : \A j \in inner : j <= i)

\* SqlServerConfig::is_statement_allowed
is_statement_allowed(access_mode, sql) ==
    IF access_mode = FullAccess
      THEN TRUE
      ELSE LET trimmed == to_uppercase(trim(sql))
           IN  \/ word_starts_with(trimmed, <<"S", "E", "L", "E", "C", "T">>)
               \/ word_starts_with(trimmed, <<"W", "I", "T", "H">>)
               \/ word_starts_with(trimmed, <<"E", "X", "P", "L", "A", "I", "N">>)
               \/ word_starts_with(trimmed, <<"S", "H", "O", "W">>)
               \/ word_starts_with(trimmed, <<"D", "E", "S", "C", "R", "I", "B", "E">>)
               \/ word_starts_with(trimmed, <<"D", "E", "S", "C">>)
               \/ word_starts_with(trimmed, <<"P", "R", "A", "G", "M", "A">>)

\* is_statement_allowed applied to a statement under an access mode: `last` is the
\* check that returned. The statements: a first word, in either case, after optional
\* whitespace and before the rest of the statement.
FirstWords ==
    { <<"s", "e", "l", "e", "c", "t">>,
      <<"S", "E", "L", "E", "C", "T">>,
      <<"S", "e", "l", "e", "c", "t">>,
      <<"w", "i", "t", "h">>,
      <<"e", "x", "p", "l", "a", "i", "n">>,
      <<"s", "h", "o", "w">>,
      <<"d", "e", "s", "c", "r", "i", "b", "e">>,
      <<"d", "e", "s", "c">>,
      <<"P", "R", "A", "G", "M", "A">>,
      <<"i", "n", "s", "e", "r", "t">>,
      <<"U", "P", "D", "A", "T", "E">>,
      <<"d", "e", "l", "e", "t", "e">>,
      <<"d", "r", "o", "p">>,
      <<"s", "e", "l", "e", "c", "t", "e", "d">>,
      <<"D", "E", "S", "C", "E", "N", "D">>,
      <<"s", "h", "o", "w", "d", "o", "w", "n">>,
      <<"w", "i", "t", "h", "d", "r", "a", "w">>,
      <<"s", "e", "l">>,
      <<>> }
Leads == { <<>>, <<" ">>, <<"\t", " ">> }
Rests == { <<>>, <<" ", "1">>, <<"(", "x", ")">>, <<" ", "x", " ">> }
Statements == {lead \o w \o rest : lead \in Leads, w \in FirstWords, rest \in Rests}
StatementChecked(access_mode, sql, allowed) ==
    [kind |-> "statement", mode |-> access_mode, sql |-> sql, allowed |-> allowed]

IsStatementAllowed(access_mode, sql) ==
    /\ last' = StatementChecked(access_mode, sql, is_statement_allowed(access_mode, sql))
    /\ UNCHANGED <<sessions, ttl, now, uuids, lock, task, dispVars>>

NextStatement == \E access_mode \in AccessModes, sql \in Statements :
                    IsStatementAllowed(access_mode, sql)

SpecStatement == InitWith(session_ttl) /\ [][NextStatement]_vars

\* ------------------------------------------------ the SQL backend (sql.rs)
\* What the database answers to a statement sent to it.
DbOk == [ok |-> TRUE]
DbErr == [ok |-> FALSE, e |-> "database error"]
\* What a method of SqlServer did: sent are the statements handed to sqlx::query
\* (a statement is the sequence of its characters, or of the pieces it was
\* formatted from), ret is the Result returned.
SqlRun(sent, ret) == [sent |-> sent, ret |-> ret]

\* SqlServer::tools: the names of the tools listed.
SqlServer_tools(access_mode) ==
    <<"query", "list_tables", "describe_table">>
      \o (IF access_mode = FullAccess THEN <<"execute">> ELSE <<>>)

\* execute_query that sends the statement whatever the guard says.
SqlServer_execute_query_unguarded(access_mode, sql, db) ==
    SqlRun(<<sql>>, IF db.ok THEN ResOk("QueryResult") ELSE ResErr(db.e))

\* SqlServer::execute_query
SqlServer_execute_query(access_mode, sql, db) ==
    IF ~is_statement_allowed(access_mode, sql)
      THEN SqlRun(<<>>, ResErr("Statement not allowed in readonly mode. Only SELECT, SHOW, DESCRIBE, and EXPLAIN are permitted."))
      ELSE SqlRun(<<sql>>, IF db.ok THEN ResOk("QueryResult") ELSE ResErr(db.e))

\* SqlServer::execute_statement
SqlServer_execute_statement(access_mode, sql, db) ==
    IF access_mode = ReadOnly
      THEN SqlRun(<<>>, ResErr("Write operations not allowed in readonly mode. Use --fullaccess to enable."))
      ELSE SqlRun(<<sql>>, IF db.ok THEN ResOk("ExecuteResult") ELSE ResErr(db.e))

\* SqlServer::list_tables: a statement of the server's own.
SqlServer_list_tables(db) ==
    SqlRun(<< <<"SELECT name, type as table_type FROM sqlite_master">> >>,
           IF db.ok THEN ResOk("Vec<TableInfo>") ELSE ResErr(db.e))

\* char::is_alphanumeric, for the characters of the names below
is_alphanumeric(c) ==
    \/ \E i \in 1..Len(LowerCase) : c \in {LowerCase[i], UpperCase[i]}
    \/ c \in {"0", "1", "2", "3", "4", "5", "6", "7", "8", "9"}

\* SqlServer::describe_table: the table name goes into a statement of the server's
\* own if it has no character but letters, digits and _ (the statement is that of
\* SQLite; the other two differ in their text).
SqlServer_describe_table(table_name, db) ==
    IF ~ \A i \in 1..Len(table_name) :
            is_alphanumeric(table_name[i]) \/ table_name[i] = "_"
      THEN SqlRun(<<>>, ResErr("Invalid table name"))
      ELSE SqlRun(<< <<"PRAGMA table_info(", table_name, ")">> >>,
                  IF db.ok THEN ResOk("Vec<ColumnInfo>") ELSE ResErr(db.e))

\* A tool's Result as call_tool returns it.
SqlContent(run) ==
    SqlRun(run.sent, ResOk(IF run.ret.ok THEN text_content(run.ret.v)
                                       ELSE error_content(run.ret.e)))
\* SqlServer::call_tool
SqlServer_call_tool(access_mode, name, arguments, db) ==
    LET sql == json_get(arguments, "sql")
        table_name == json_get(arguments, "table_name")
    IN  CASE name = "query" ->
               IF sql.t # "str" THEN SqlRun(<<>>, ResErr("Missing sql argument"))
               ELSE SqlContent(SqlServer_execute_query(access_mode, sql.s, db))
          [] name = "execute" ->
               IF sql.t # "str" THEN SqlRun(<<>>, ResErr("Missing sql argument"))
               ELSE SqlContent(SqlServer_execute_statement(access_mode, sql.s, db))
          [] name = "list_tables" -> SqlContent(SqlServer_list_tables(db))
          [] name = "describe_table" ->
               IF table_name.t # "str"
                 THEN SqlRun(<<>>, ResErr("Missing table_name argument"))
               ELSE SqlContent(SqlServer_describe_table(table_name.s, db))
          [] OTHER -> SqlRun(<<>>, ResOk(error_content(<<"Unknown tool: ", name>>)))

\* call_tool applied under an access mode: `last` is the call that returned, with
\* the tool list of the server.
SqlToolNames == {"query", "execute", "list_tables", "describe_table", "drop"}
SqlTexts ==
    { w \o <<" ", "1">> :
        w \in { <<"s", "e", "l", "e", "c", "t">>, <<"P", "R", "A", "G", "M", "A">>,
                <<"i", "n", "s", "e", "r", "t">>, <<"d", "r", "o", "p">>,
                <<"w", "i", "t", "h">>, <<"s", "e", "l">> } }
TableNames == { <<"t", "_", "1">>, <<"t", ")", ";">>, <<>> }
SqlArguments ==
    {EmptyObj} \cup {JObj([sql |-> JStr(s)]) : s \in SqlTexts}
               \cup {JObj([table_name |-> JStr(n)]) : n \in TableNames}
               \cup {JObj([sql |-> JNum(1)])}
SqlToolCalled(access_mode, name, arguments, db) ==
    [kind |-> "sql", mode |-> access_mode, name |-> name, args |-> arguments,
     db |-> db, tools |-> SqlServer_tools(access_mode),
     sent |-> SqlServer_call_tool(access_mode, name, arguments, db).sent,
     ret |-> SqlServer_call_tool(access_mode, name, arguments, db).ret]
SqlCallTool(access_mode, name, arguments, db) ==
    /\ last' = SqlToolCalled(access_mode, name, arguments, db)
    /\ UNCHANGED <<sessions, ttl, now, uuids, lock, task, dispVars>>

NextSql == \E access_mode \in AccessModes, name \in SqlToolNames,
              arguments \in SqlArguments, db \in {DbOk, DbErr} :
              SqlCallTool(access_mode, name, arguments, db)

SpecSql == InitWith(session_ttl) /\ [][NextSql]_vars

\* is_command_allowed applied to a command under the --allow and --deny patterns of
\* a configuration: `last` is the check that returned.
Commands ==
    { <<>>, <<" ">>, Ls, RmRf, Rmdir,
      <<"l", "s", " ", "-", "l", "a">>,
      <<"l", "s", "b", "l", "k">>,
      <<" ", "r", "m", " ", "f">>,
      <<"\t", "l", "s">>,
      <<"c", "a", "t", " ", "r", "m">>,
      <<"s", "u", "d", "o", " ", "l", "s">> }
LsStar == <<"l", "s", "*">>
RmStar == <<"r", "m", "*">>
Star == <<"*">>
PatternLists ==
    { <<>>, <<LsStar>>, <<RmStar>>, <<Star>>, <<Ls>>, << <<>> >>,
      <<Ls, <<"c", "a", "t", "*">> >>,
      << <<"s", "u", "d", "o">>, RmStar>> }
CommandChecked(command, allow, deny, allowed) ==
    [kind |-> "command", command |-> command, allow |-> allow, deny |-> deny,
     allowed |-> allowed]

IsCommandAllowed(command, allow, deny) ==
    /\ last' = CommandChecked(command, allow, deny,
                              is_command_allowed(allow, deny, command))
    /\ UNCHANGED <<sessions, ttl, now, uuids, lock, task, dispVars>>

NextCommand == \E command \in Commands, allow \in PatternLists, deny \in PatternLists :
                  IsCommandAllowed(command, allow, deny)

SpecCommand == InitWith(session_ttl) /\ [][NextCommand]_vars

\* run_http_server: SessionManager::new(config.session_ttl)
Init == InitWith(session_ttl)

Spec == Init /\ [][Next]_vars

SpecClient == Init /\ [][NextClient]_vars

\* The HTTP server with its cleanup task scheduled fairly. start_cleanup_task spawns
\* a task of its own whose loop awaits interval_timer.tick(), which completes every
\* interval whatever the handlers do, and then cleanup_expired, whose write guard is
\* granted as soon as the guards held are dropped: no handler holds one across a
\* step. The interval is abstracted to "again and again". One client's requests
\* run beside the task.
NextSweep == HttpNext({Client}, MaxInit)
SpecSweep == Init /\ [][NextSweep]_vars /\ WF_vars(CleanupExpired(Sweeper, "call"))

\* The one client, creating at most MaxInit sessions.
NextSession == HttpNext({Client}, MaxInit)
SpecSession == Init /\ [][NextSession]_vars

\* The HTTP server with the guards of the store in sight: the guard of a handler's
\* first SessionManager call (none when the request is rejected before it, the write
\* guard of create_session and delete_session, the read guard of validate_session)
\* is granted in the step in which that call runs; the guard of touch_session, of
\* mark_initialized and of the cleanup task's cleanup_expired is granted in a step of
\* its own, and the call runs in a later one. One client's requests run beside the
\* cleanup task.
FirstGuard(verb, origin, body, header) ==
    IF validate_origin(origin, allowed_origins) # 200 THEN "none"
    ELSE IF verb = "POST" /\ body = ParseFail THEN "none"
    ELSE IF verb = "POST" /\ body.method = "initialize" THEN LockMode("create_session")
    ELSE IF ~header.some THEN "none"
    ELSE IF verb = "DELETE" THEN LockMode("delete_session")
    ELSE LockMode("validate_session")
Granted(mode) == mode = "none" \/ CanLock(mode)
NextGuard ==
    \/ \E t \in {Client}, o \in HttpOrigins, b \in HttpBodies, h \in HttpHeaders(MaxInit) :
          /\ Granted(FirstGuard("POST", o, b, h))
          /\ handle_post(t, o, b, h) /\ uuids' <= MaxInit
    \/ \E t \in {Client}, o \in HttpOrigins, h \in HttpHeaders(MaxInit) :
          Granted(FirstGuard("GET", o, NoRequest, h)) /\ handle_get(t, o, h)
    \/ \E t \in {Client}, o \in HttpOrigins, h \in HttpHeaders(MaxInit) :
          Granted(FirstGuard("DELETE", o, NoRequest, h)) /\ handle_delete(t, o, h)
    \/ \E t \in {Client, Sweeper} : Lock(t)
    \/ \E t \in {Client} : MarkInitialized(t, "locked")
    \/ \E t \in {Client} : TouchSession(t, "locked")
    \/ CleanupExpired(Sweeper, "locked")
    \/ \E t \in {Client} : StreamClose(t)
    \/ \E t \in {Client} : KeepAlive(t)
    \/ Tick

SpecGuard == Init /\ [][NextGuard]_vars

\* execute_command applied to a command under the --allow and --deny patterns and
\* the include_stderr flag of a configuration, the shell's run ending as output
\* says: `last` is the call that returned.
ExecCommands == { Ls, RmRf, <<"l", "s", " ", "-", "l", "a">>, <<" ", "r", "m", " ", "f">> }
ExecAllow == { <<>>, <<LsStar>>, <<Star>> }
ExecDeny == { <<>>, <<RmStar>> }
Outputs ==
    { OutputOk("out", "err", Some(0)), OutputOk("", "err", Some(1)),
      OutputOk("out", "", NoneOpt), OutputErr("No such file or directory") }
CommandExecuted(allow, deny, include_stderr, command, output) ==
    [kind |-> "exec", allow |-> allow, deny |-> deny, command |-> command,
     include_stderr |-> include_stderr,
     spawned |-> ShellServer_execute_command(allow, deny, include_stderr, command,
                                             output).spawned,
     result |-> ShellServer_execute_command(allow, deny, include_stderr, command,
                                            output).result]
ExecuteCommand(allow, deny, include_stderr, command, output) ==
    /\ last' = CommandExecuted(allow, deny, include_stderr, command, output)
    /\ UNCHANGED <<sessions, ttl, now, uuids, lock, task, dispVars>>

NextShell == \E allow \in ExecAllow, deny \in ExecDeny, include_stderr \in BOOLEAN,
                command \in ExecCommands, output \in Outputs :
                ExecuteCommand(allow, deny, include_stderr, command, output)

SpecShell == InitWith(session_ttl) /\ [][NextShell]_vars

\* ------------------------------------------------------------ properties
\* `last` in the state after a step is the call that returned in that step; the
\* unprimed variables are the state the call ran in.
ReturnedFrom(o) == last'.kind = "call" /\ last'.op = o
Age(store, id) == now - store[id].last_activity

\* C2: validate(id) returns NotFound exactly when the store has no record for id,
\* Expired exactly when a record exists and now - last_activity > ttl, and Ok
\* otherwise; in every case the store is left unchanged.
C2_validate ==
    [][ ReturnedFrom("validate_session") =>
          /\ sessions' = sessions
          /\ (last'.ret = NotFound) <=> (last'.arg \notin DOMAIN sessions)
          /\ (last'.ret = Expired) <=>
                (last'.arg \in DOMAIN sessions /\ Age(sessions, last'.arg) > ttl)
          /\ (last'.ret = Ok) <=>
                (last'.arg \in DOMAIN sessions /\ Age(sessions, last'.arg) <= ttl) ]_vars
\* validate has returned Ok for a record idle for exactly ttl.
C2_witness ==
    /\ last.kind = "call" /\ last.op = "validate_session"
    /\ last.ret = Ok
    /\ Age(sessions, last.arg) = ttl
    /\ ttl > 0

\* C3 (as stated): create returns an identifier no earlier create returned and
\* inserts one record with creation time = last-activity = now and initialized =
\* false, leaving the other records unchanged; validate on the new id returns Ok
\* immediately afterwards. Earlier creates returned the identifiers below uuids.
C3_create ==
    [][ ReturnedFrom("create_session") =>
          LET id == last'.ret.s
          IN  /\ id = uuids /\ id \notin DOMAIN sessions
              /\ DOMAIN sessions' = DOMAIN sessions \cup {id}
              /\ sessions'[id] = [id |-> id, created_at |-> now', last_activity |-> now',
                                  initialized |-> FALSE]
              /\ \A i \in DOMAIN sessions : sessions'[i] = sessions[i]
              /\ validate_session(sessions', id, now', ttl).ret = Ok ]_vars

\* C4: sweep removes exactly the records with now - last_activity > ttl, keeps every
\* other record unchanged (a record aged exactly ttl is kept) and returns the number
\* of records it removed.
C4_sweep ==
    [][ ReturnedFrom("cleanup_expired") =>
          LET gone == {i \in DOMAIN sessions : Age(sessions, i) > ttl}
          IN  /\ gone = {i \in DOMAIN sessions :
                           validate_session(sessions, i, now, ttl).ret = Expired}
              /\ DOMAIN sessions' = DOMAIN sessions \ gone
              /\ \A i \in DOMAIN sessions' : sessions'[i] = sessions[i]
              /\ last'.ret = Usize(Cardinality(gone)) ]_vars
\* A sweep has removed one record and kept one aged exactly ttl.
C4_witness ==
    /\ last.kind = "call" /\ last.op = "cleanup_expired"
    /\ last.ret = Usize(1)
    /\ \E i \in DOMAIN sessions : Age(sessions, i) = ttl

\* C5: delete(id) removes the record and returns true when a record for id exists,
\* and returns false leaving the store unchanged when none exists; a delete of the
\* same id right after returns false, and validate(id) right after returns NotFound.
C5_delete ==
    [][ ReturnedFrom("delete_session") =>
          LET id == last'.arg
          IN  /\ IF id \in DOMAIN sessions
                   THEN /\ last'.ret = Bool(TRUE)
                        /\ DOMAIN sessions' = DOMAIN sessions \ {id}
                        /\ \A i \in DOMAIN sessions' : sessions'[i] = sessions[i]
                   ELSE /\ last'.ret = Bool(FALSE)
                        /\ sessions' = sessions
              /\ delete_session(sessions', id).ret = Bool(FALSE)
              /\ validate_session(sessions', id, now', ttl).ret = NotFound ]_vars
\* A delete has removed a record and left another one in the store.
C5_witness ==
    /\ last.kind = "call" /\ last.op = "delete_session"
    /\ last.ret = Bool(TRUE)
    /\ last.arg \notin DOMAIN sessions
    /\ sessions # EmptyStore

\* C6: touch, mark_initialized and validate called with an id that has no record
\* report NotFound and leave the store unchanged.
C6_unknown_id ==
    [][ /\ last'.kind = "call"
        /\ last'.op \in {"touch_session", "mark_initialized", "validate_session"}
        /\ last'.arg \notin DOMAIN sessions
        => last'.ret = NotFound /\ sessions' = sessions ]_vars
\* touch has returned NotFound for an id while the store holds another record.
C6_witness ==
    /\ last.kind = "call" /\ last.op = "touch_session"
    /\ last.ret = NotFound
    /\ last.arg \notin DOMAIN sessions
    /\ sessions # EmptyStore

\* C8: every record's last-activity time is greater than or equal to its creation
\* time.
C8_activity_after_creation ==
    \A i \in DOMAIN sessions : sessions[i].last_activity >= sessions[i].created_at
\* A record has been touched after the clock advanced.
C8_witness ==
    \E i \in DOMAIN sessions : sessions[i].last_activity > sessions[i].created_at

\* The client's view of an identifier: Live, the record exists and has not idled
\* longer than ttl; Removed, the identifier was issued and its record is gone.
Live(i) == i \in DOMAIN sessions /\ Age(sessions, i) <= ttl
Removed(i) == i \in 1..uuids /\ i \notin DOMAIN sessions
ClientMethods == {b.method : b \in HttpRequests}
\* The step in which the server takes up the client's request: the handler answers
\* in this step, or goes on to its next SessionManager call.
Received(verb, method, header) ==
    /\ task[Client].pc = "idle"
    /\ \/ /\ last'.kind = "http"
          /\ last'.verb = verb /\ last'.method = method /\ last'.hdr = header
       \/ /\ task'[Client].pc # "idle"
          /\ task'[Client].caller = verb /\ task'[Client].hdr = header
          /\ verb = "POST" => task'[Client].req.method = method
Answered(verb, status) ==
    last'.kind = "http" /\ last'.verb = verb /\ last'.status = status
HasResult(body, key) ==
    /\ body # NoResponse
    /\ is_some(body.result)
    /\ is_some(json_get(body.result, key))

\* C1, its first three parts: a POST initialize is answered 200 with an
\* mcp-session-id header and a result containing protocolVersion; a POST tools/list
\* carrying a live id goes on to touch the session and is answered 200 with that id
\* and a tools array; a DELETE carrying an id is answered 200 exactly when the record
\* exists, and the record is gone afterwards.
C1_serve ==
    /\ \A h \in HttpHeaders(MaxClientInit) :
         /\ last'.kind = "http" /\ last'.verb = "POST" /\ last'.method = "initialize"
            => /\ last'.status = 200
               /\ last'.sid.some
               /\ HasResult(last'.body, "protocolVersion")
         /\ Received("POST", "initialize", h)
            => /\ task'[Client].op = "mark_initialized"
               /\ task'[Client].arg = uuids' /\ uuids' = uuids + 1
               /\ task'[Client].arg \in DOMAIN sessions'
    /\ \A i \in HeaderIds(MaxClientInit) :
         /\ Received("POST", "tools/list", Some(i)) /\ Live(i)
            => task'[Client].op = "touch_session" /\ task'[Client].arg = i
         /\ /\ task[Client].caller = "POST" /\ task[Client].op = "touch_session"
            /\ task[Client].req.method = "tools/list" /\ task[Client].arg = i
            /\ task'[Client] # task[Client]
            => /\ Answered("POST", 200)
               /\ last'.sid = Some(i)
               /\ HasResult(last'.body, "tools")
               /\ json_get(last'.body.result, "tools").t = "arr"
         /\ Received("DELETE", "none", Some(i))
            => /\ Answered("DELETE", IF i \in DOMAIN sessions THEN 200 ELSE 404)
               /\ i \notin DOMAIN sessions'
C1_removed_stays == \A i \in HeaderIds(MaxClientInit) : Removed(i) => Removed(i)'

\* C1 (as stated): for one client, a POST initialize returns 200 with an
\* mcp-session-id header and a result containing protocolVersion, a later POST
\* tools/list carrying that id returns 200 with a tools array, a DELETE carrying it
\* returns 200, and every POST carrying that id after the DELETE returns 404 (a
\* deleted id is never served again).
C1_lifecycle ==
    [][ /\ C1_serve
        /\ C1_removed_stays
        /\ \A i \in HeaderIds(MaxClientInit), m \in ClientMethods :
             Removed(i) /\ Received("POST", m, Some(i)) => Answered("POST", 404)
      ]_vars

\* C1 (amended): for one client, a POST initialize returns 200 with an
\* mcp-session-id header and a result containing protocolVersion, a later POST
\* tools/list carrying that id while it is live returns 200 with a tools array, a
\* DELETE carrying it returns 200 while the record exists, and every POST carrying
\* that id after its record was removed, with a method other than initialize,
\* returns 404; an identifier that was removed never has a record again (a POST
\* initialize creates a session under a new one).
C1_lifecycle_amended ==
    [][ /\ C1_serve
        /\ C1_removed_stays
        /\ \A i \in HeaderIds(MaxClientInit), m \in ClientMethods \ {"initialize"} :
             Removed(i) /\ Received("POST", m, Some(i)) => Answered("POST", 404)
      ]_vars
\* The client's POST tools/list carrying the id it has deleted was answered 404 (at
\* clock 0 nothing has expired: the record was removed by DELETE).
C1_witness ==
    /\ last = Http("POST", "tools/list", Some(1), 404, NoneOpt, NoResponse)
    /\ Removed(1)
    /\ now = 0

\* The tasks that access the map: they run an operation's body under its guard.
WriterOps == {"create_session", "touch_session", "mark_initialized", "delete_session",
              "cleanup_expired"}
ReaderOps == {"validate_session", "is_initialized", "session_count"}
Writers == {t \in Tasks : task[t].pc = "locked" /\ task[t].op \in WriterOps}
Readers == {t \in Tasks : task[t].pc = "locked" /\ task[t].op \in ReaderOps}

\* C7: under any interleaving of the callers and the sweep task, at most one writer
\* (create, touch, mark_initialized, delete, sweep) accesses the map at a time and no
\* reader (validate, is_initialized, session_count) accesses it while a writer does.
C7_readers_writer ==
    /\ Cardinality(Writers) <= 1
    /\ Writers # {} => Readers = {}
\* Several readers access the map together, while a writer waits for its guard.
C7_witness ==
    /\ Cardinality(Readers) >= 2
    /\ \E t \in Tasks : task[t].pc = "call" /\ task[t].op \in WriterOps

\* C9: the dispatcher returns no response if and only if the method is initialized
\* or notifications/initialized, whatever the id and the params.
C9_no_response ==
    dreq # NoRequest =>
       ((dresp = NoResponse) <=>
           (dreq.method \in {"initialized", "notifications/initialized"}))
\* An initialized request that carries an id was not answered.
C9_witness ==
    /\ dreq # NoRequest
    /\ dreq.method = "initialized"
    /\ dreq.id = JNum(1)
    /\ dresp = NoResponse

\* C10: for every method name other than initialize, initialized,
\* notifications/initialized, tools/list and tools/call the dispatcher returns an
\* error response with code -32601 whose message contains the method name and whose
\* id is the request's id; no tool is invoked.
C10_method_not_found ==
    (/\ dreq # NoRequest
     /\ dreq.method \notin {"initialize", "initialized", "notifications/initialized",
                            "tools/list", "tools/call"})
    => /\ dresp # NoResponse
       /\ dresp.result = Absent
       /\ dresp.error # Absent
       /\ dresp.error.code = -32601
       /\ contains(dresp.error.message, dreq.method)
       /\ dresp.id = dreq.id
       /\ calls = <<>>
\* A request for an unknown method, with tool-call params and a string id, was
\* answered with the error.
C10_witness ==
    /\ dreq = JsonRpcRequest(JStr("a"), "ping", ToolCallParams)
    /\ dresp # NoResponse
    /\ dresp.error # Absent
    /\ dresp.error.code = -32601

\* The id a line of stdin carries: its id member, unless that is null.
LineId(l) == IF json_get(l, "id") = JNull THEN Absent ELSE json_get(l, "id")
ExactlyOneOfResultAndError(r) == is_some(r.result) # is_some(r.error)

\* C11 (as stated): every response the dispatcher or the local channel produces
\* carries exactly one of result and error, and its id equals the id of the request
\* it answers, being absent exactly when the request had none.
C11_response_shape ==
    dresp # NoResponse =>
       /\ ExactlyOneOfResultAndError(dresp)
       /\ dresp.id = LineId(line)

\* C11 (amended): every response carries exactly one of result and error; the
\* response to a line that decodes as a request has the request's id, absent exactly
\* when the line had none; the response to a line that does not decode is the parse
\* error (-32700) without id, whether or not the line had an id member.
C11_response_shape_amended ==
    dresp # NoResponse =>
       /\ ExactlyOneOfResultAndError(dresp)
       /\ IF dreq # NoRequest
            THEN dresp.id = dreq.id /\ dreq.id = LineId(line)
            ELSE /\ dresp.id = Absent
                 /\ is_some(dresp.error)
                 /\ dresp.error.code = -32700
\* A request with a string id was answered with an error response that has this id.
C11_witness ==
    /\ dreq # NoRequest
    /\ dresp # NoResponse
    /\ dreq.id = JStr("a")
    /\ dresp.id = JStr("a")
    /\ is_some(dresp.error)

\* C12: a request with method initialize always produces a success response,
\* whatever its params, its id and the requests handled before it; the result
\* contains protocolVersion "2024-11-05", a capabilities object and serverInfo with
\* the backend's name and version.
C12_initialize ==
    (dreq # NoRequest /\ dreq.method = "initialize") =>
       /\ dresp # NoResponse
       /\ ~is_some(dresp.error)
       /\ is_some(dresp.result)
       /\ json_get(dresp.result, "protocolVersion") = JStr("2024-11-05")
       /\ json_get(dresp.result, "capabilities").t = "obj"
       /\ json_get(json_get(dresp.result, "serverInfo"), "name") = JStr("mcpz-shell")
       /\ json_get(json_get(dresp.result, "serverInfo"), "version")
             = JStr("CARGO_PKG_VERSION")
\* An initialize without id and with tool-call params was answered with the result.
C12_witness ==
    /\ dreq = JsonRpcRequest(Absent, "initialize", ToolCallParams)
    /\ dresp # NoResponse
    /\ is_some(dresp.result)
    /\ calls = <<>>

\* A tools/call request, and what its params hold.
IsToolsCall == dreq # NoRequest /\ dreq.method = "tools/call"
ToolName == json_get(dreq.params, "name")
ToolArguments == json_get(dreq.params, "arguments")
ProtocolError(r) == r # NoResponse /\ is_some(r.error) /\ ~is_some(r.result)
ToolError(r) ==
    /\ r # NoResponse
    /\ ~is_some(r.error)
    /\ is_some(r.result)
    /\ json_get(r.result, "isError") = JBool(TRUE)

\* C13 (as stated): a tools/call that names an unknown tool, or names a known tool
\* but omits one of its required arguments, succeeds at the protocol level: the
\* response carries a result that reports a tool-level error (isError = true) and no
\* JSON-RPC error member.
C13_tool_level_error ==
    (/\ IsToolsCall
     /\ ToolName.t = "str"
     /\ is_some(ToolArguments)
     /\ \/ ToolName.s # "execute_command"
        \/ ~is_some(json_get(ToolArguments, "command")))
    => ToolError(dresp)

\* C14 (as stated): a tools/call whose params lack a tool name, or lack an arguments
\* value, produces a protocol-level JSON-RPC error response and does not invoke any
\* backend tool.
C14_structural_error ==
    (IsToolsCall /\ (~is_some(ToolName) \/ ~is_some(ToolArguments)))
    => ProtocolError(dresp) /\ calls = <<>>

\* A tools/call of the shell tool whose command the pattern guard rejects.
SandboxRejection ==
    /\ IsToolsCall
    /\ ToolName = JStr("execute_command")
    /\ json_get(ToolArguments, "command").t = "str"
    /\ ~is_command_allowed(allow_patterns, deny_patterns,
                           json_get(ToolArguments, "command").s)

\* C15 (as stated): a sandbox rejection is answered by a successful protocol
\* response (a result, no JSON-RPC error) whose payload carries the isError marker.
C15_sandbox_rejection == SandboxRejection => ToolError(dresp)

\* The origin check that returned, and the conditions the check is stated over.
OriginCheck == last.kind = "origin"
LocalOrigin(origin) ==
    \/ starts_with(origin, <<"http://", "localhost">>)
    \/ starts_with(origin, <<"http://", "127.0.0.1">>)
    \/ starts_with(origin, <<"https://", "localhost">>)
    \/ starts_with(origin, <<"https://", "127.0.0.1">>)
PassesByRule(origin, allowed) ==
    \/ origin = NoOrigin
    \/ LocalOrigin(origin)
    \/ contains(allowed, origin)
    \/ contains(allowed, Wildcard)

\* C16 (as stated): the origin check passes if and only if there is no Origin
\* header, or the origin starts with one of the four localhost prefixes, or it is in
\* the allow-list verbatim, or the allow-list holds "*"; every other origin is
\* rejected with 403.
C16_origin_check ==
    OriginCheck =>
       /\ last.status = 200 <=> PassesByRule(last.origin, last.allowed)
       /\ last.status # 200 => last.status = 403

ExpiredUnswept(i) == i \in DOMAIN sessions /\ Age(sessions, i) > ttl
NoRecord(i) == i \notin DOMAIN sessions
\* What the client sees of a response: status, mcp-session-id header, body.
Outcome(e) == <<e.status, e.sid, e.body>>
\* Handler t takes up a request of the verb that carries header h and has passed the
\* checks before the session is looked at: it answers in this step or goes on (no
\* handler that was under way moves in the step).
TakesUp(t, verb, h) ==
    /\ task[t].pc = "idle"
    /\ \/ last'.kind = "http" /\ last'.verb = verb /\ last'.hdr = h
       \/ task'[t].pc # "idle" /\ task'[t].caller = verb /\ task'[t].hdr = h
    /\ \A u \in Tasks : task[u].pc # "idle" => task'[u] = task[u]
Initialize(t) ==
    /\ task'[t].pc # "idle"
    /\ task'[t].caller = "POST"
    /\ task'[t].req.method = "initialize"
\* The request is answered in the step, with what the client sees being o.
AnsweredWith(o) == last'.kind = "http" /\ Outcome(last') = o
SameOutcome(t, verb, o) ==
    \A i \in HeaderIds(MaxClientInit) :
       TakesUp(t, verb, Some(i)) /\ (ExpiredUnswept(i) \/ NoRecord(i))
          => AnsweredWith(o)

\* C18 (as stated): for POST, GET and DELETE, a request carrying the id of a session
\* that is expired but not yet swept has the outcome (status, headers, body) of the
\* same request carrying an id without record, which is 404 without header and body
\* (a POST initialize does not look at the id it carries).
C18_indistinguishable ==
    [][ LET t == Client
        IN  /\ ~Initialize(t) => SameOutcome(t, "POST", <<404, NoneOpt, NoResponse>>)
            /\ SameOutcome(t, "GET", <<404, NoneOpt, NoResponse>>)
            /\ SameOutcome(t, "DELETE", <<404, NoneOpt, NoResponse>>) ]_vars

\* C18, amended: a POST and a GET carrying the id of a session that is expired but
\* not yet swept are answered like those carrying an id without record, 404 without
\* header and body, and the store stays as it was. A DELETE tells the two apart: it
\* removes the expired session and answers 200, and answers 404 for an id without
\* record.
C18_indistinguishable_amended ==
    [][ LET t == Client
        IN
          /\ ~Initialize(t) => SameOutcome(t, "POST", <<404, NoneOpt, NoResponse>>)
          /\ SameOutcome(t, "GET", <<404, NoneOpt, NoResponse>>)
          /\ \A i \in HeaderIds(MaxClientInit) :
                /\ (TakesUp(t, "POST", Some(i)) \/ TakesUp(t, "GET", Some(i)))
                     /\ ExpiredUnswept(i) /\ ~Initialize(t)
                   => sessions' = sessions
                /\ TakesUp(t, "DELETE", Some(i)) /\ ExpiredUnswept(i)
                   => /\ AnsweredWith(<<200, NoneOpt, NoResponse>>)
                      /\ i \notin DOMAIN sessions'
                /\ TakesUp(t, "DELETE", Some(i)) /\ NoRecord(i)
                   => AnsweredWith(<<404, NoneOpt, NoResponse>>) ]_vars

\* A GET carrying the id of a session that is expired and still in the store was
\* answered 404.
C18_witness ==
    /\ last.kind = "http" /\ last.verb = "GET" /\ last.status = 404
    /\ last.hdr.some
    /\ last.hdr.v \in DOMAIN sessions
    /\ Age(sessions, last.hdr.v) > ttl

\* The client's POST initialize is taken up, carrying header h.
InitializeWith(h) == TakesUp(Client, "POST", h) /\ Initialize(Client)
\* The step adds the session of a fresh id to the store and changes no other record.
CreatesSession ==
    /\ uuids' = uuids + 1
    /\ DOMAIN sessions' = DOMAIN sessions \cup {uuids + 1}
    /\ uuids + 1 \notin DOMAIN sessions
    /\ \A i \in DOMAIN sessions : sessions'[i] = sessions[i]

\* C19 (as stated): a POST initialize creates a new session if and only if the
\* request carries no mcp-session-id header, and a POST of any other method is
\* handled only when the session it names has been validated.
C19_create_iff_no_header ==
    [][ \A h \in HttpHeaders(MaxClientInit) :
          /\ InitializeWith(h) => (CreatesSession <=> ~h.some)
          /\ TakesUp(Client, "POST", h) /\ ~Initialize(Client)
                /\ task'[Client].pc # "idle"
             => h.some /\ Live(h.v) ]_vars

\* C19, amended: a POST initialize creates a new session whether or not the request
\* carries an mcp-session-id header; the id it carries is not looked at and the
\* session of that id is left as it was. A POST of any other method is handled only
\* when the session it names is in the store and not expired.
C19_create_always ==
    [][ \A h \in HttpHeaders(MaxClientInit) :
          /\ InitializeWith(h) =>
                /\ CreatesSession
                /\ task'[Client].arg = uuids + 1
                /\ sessions'[uuids + 1].id = uuids + 1
          /\ TakesUp(Client, "POST", h) /\ ~Initialize(Client)
                /\ task'[Client].pc # "idle"
             => h.some /\ Live(h.v) ]_vars

\* A POST initialize that carried the id of a session in the store has created a
\* second session.
C19_witness ==
    /\ task[Client].caller = "POST"
    /\ task[Client].req.method = "initialize"
    /\ task[Client].op = "mark_initialized"
    /\ task[Client].hdr.some
    /\ task[Client].hdr.v # task[Client].arg
    /\ {task[Client].hdr.v, task[Client].arg} \subseteq DOMAIN sessions

\* Handler t, past the validation of the session its POST names (or past
\* create_session), ends the call it awaited: handle_post goes on to the dispatcher.
Dispatches(t) ==
    /\ task[t].caller = "POST"
    /\ task[t].pc # "idle"
    /\ task'[t] # task[t]

\* C20: a POST of initialized or notifications/initialized that carries a valid
\* session id (and passed the origin check) is answered 202 with the mcp-session-id
\* header set to that id and no body; a POST for which the dispatcher produces a
\* response is answered 200 with the header set to the session's id and that
\* response as body.
C20_post_reply ==
    [][ LET t == Client
        IN
          /\ \A i \in HeaderIds(MaxClientInit) :
                /\ TakesUp(t, "POST", Some(i)) /\ Live(i)
                /\ task'[t].req.method \in {"initialized", "notifications/initialized"}
                => /\ task'[t].op = "touch_session"
                   /\ task'[t].arg = i
          /\ Dispatches(t) =>
                LET r == handle_request(task[t].req).resp
                IN  /\ task[t].req.method \in {"initialized", "notifications/initialized"}
                       => /\ task[t].hdr = Some(task[t].arg)
                          /\ AnsweredWith(<<202, task[t].hdr, NoResponse>>)
                    /\ r # NoResponse /\ task[t].op = "mark_initialized"
                       => AnsweredWith(<<200, Some(task[t].arg), r>>)
                    /\ r # NoResponse /\ task[t].op = "touch_session"
                       => /\ task[t].hdr = Some(task[t].arg)
                          /\ AnsweredWith(<<200, task[t].hdr, r>>) ]_vars

\* A POST initialized that carried a session id was answered 202 with that id.
C20_witness ==
    /\ last.kind = "http" /\ last.verb = "POST" /\ last.method = "initialized"
    /\ last.status = 202
    /\ last.hdr.some
    /\ last.sid = last.hdr
    /\ last.body = NoResponse

\* The initialized flag of the sessions over a step: a new session is uninitialized,
\* an initialized session stays so while it has a record, and a session becomes
\* initialized only in the step in which the client's handle_post, holding a
\* response whose result has a protocolVersion member, ends mark_initialized for it:
\* last_activity is set to now and the POST is answered 200 naming the session.
InitializedFlag ==
    /\ \A i \in DOMAIN sessions' \ DOMAIN sessions : ~sessions'[i].initialized
    /\ \A i \in DOMAIN sessions' \cap DOMAIN sessions :
         /\ sessions[i].initialized => sessions'[i].initialized
         /\ ~sessions[i].initialized /\ sessions'[i].initialized
            => /\ task[Client].caller = "POST"
               /\ task[Client].op = "mark_initialized"
               /\ task[Client].arg = i
               /\ HasResult(task[Client].response, "protocolVersion")
               /\ sessions'[i].last_activity = now
               /\ AnsweredWith(<<200, Some(i), task[Client].response>>)
\* handle_post goes on to mark_initialized exactly when the dispatcher's response has
\* a result with a protocolVersion member.
MarksExactly ==
    /\ task'[Client].caller = "POST" /\ task'[Client].op = "mark_initialized"
       /\ task'[Client] # task[Client]
       => HasResult(handle_request(task'[Client].req).resp, "protocolVersion")
    /\ Dispatches(Client) /\ task[Client].op = "touch_session"
       /\ HasResult(handle_request(task[Client].req).resp, "protocolVersion")
       => task'[Client].op = "mark_initialized"
    /\ \A h \in HttpHeaders(MaxClientInit) :
          InitializeWith(h) => task'[Client].op = "mark_initialized"
InitializeAnswered ==
    last'.kind = "http" /\ last'.verb = "POST" /\ last'.method = "initialize"
       /\ last'.status = 200

\* C21 (as stated): a session is uninitialized from its creation until the
\* initialize response for it is produced and initialized from then on;
\* mark_initialized is applied exactly when the dispatcher's response has a result
\* with a protocolVersion member; after a POST initialize is answered 200 the
\* session named in the response header is initialized.
C21_initialized ==
    [][ /\ InitializedFlag
        /\ MarksExactly
        /\ InitializeAnswered
           => /\ last'.sid.some
              /\ last'.sid.v \in DOMAIN sessions'
              /\ sessions'[last'.sid.v].initialized ]_vars

\* C21, amended: as stated, except that the session named in the header of the 200
\* response is initialized only if it still has a record when mark_initialized
\* runs; it may have been removed between create_session and mark_initialized, the
\* error of mark_initialized is dropped and the POST is answered 200 all the same.
C21_initialized_amended ==
    [][ /\ InitializedFlag
        /\ MarksExactly
        /\ InitializeAnswered
           => /\ last'.sid.some
              /\ \/ last'.sid.v \notin DOMAIN sessions'
                 \/ sessions'[last'.sid.v].initialized ]_vars

\* A POST initialize was answered 200 and the session it names is initialized.
C21_witness ==
    /\ last.kind = "http" /\ last.verb = "POST" /\ last.method = "initialize"
    /\ last.status = 200
    /\ last.sid.some
    /\ last.sid.v \in DOMAIN sessions
    /\ sessions[last.sid.v].initialized
    /\ sessions[last.sid.v].last_activity = now

\* C22: a DELETE is answered 403 when the origin check fails, else 400 when there is
\* no mcp-session-id header, else 200 when the id has a record, which is removed and
\* no other, else 404; in the 403, 400 and 404 cases the store is left as it was.
C22_delete ==
    [][ \A origin \in HttpOrigins, header \in HttpHeaders(MaxClientInit) :
          handle_delete(Client, origin, header) =>
            LET status == IF validate_origin(origin, allowed_origins) # 200 THEN 403
                          ELSE IF ~header.some THEN 400
                          ELSE IF header.v \in DOMAIN sessions THEN 200
                          ELSE 404
            IN  /\ AnsweredWith(<<status, NoneOpt, NoResponse>>)
                /\ status = 200
                   => /\ DOMAIN sessions' = DOMAIN sessions \ {header.v}
                      /\ \A i \in DOMAIN sessions' : sessions'[i] = sessions[i]
                /\ status # 200 => sessions' = sessions ]_vars

\* A DELETE was answered 200, the session it named is gone and another one is in the
\* store.
C22_witness ==
    /\ last.kind = "http" /\ last.verb = "DELETE" /\ last.status = 200
    /\ last.hdr.some
    /\ last.hdr.v \notin DOMAIN sessions
    /\ DOMAIN sessions # {}

IsFirstToken(command, tok) ==
    \E i \in 0..Len(command) :
       /\ \A j \in 1..i : is_whitespace(command[j])
       /\ i + Len(tok) <= Len(command)
       /\ SubSeq(command, i + 1, i + Len(tok)) = tok
       /\ \A j \in 1..Len(tok) : ~is_whitespace(tok[j])
       /\ i + Len(tok) = Len(command) \/ is_whitespace(command[i + Len(tok) + 1])
       /\ tok = <<>> => i = Len(command)
\* The pattern matches the token: by its prefix when it ends in *, else as a whole.
TokenMatches(tok, pattern) ==
    IF pattern # <<>> /\ pattern[Len(pattern)] = "*"
      THEN \E rest \in 0..Len(tok) :
              SubSeq(tok, 1, Len(tok) - rest) = SubSeq(pattern, 1, Len(pattern) - 1)
      ELSE tok = pattern
TokenMatchesSome(tok, list) == \E i \in 1..Len(list) : TokenMatches(tok, list[i])
CommandCheck == last.kind = "command"

\* C24: the command guard decides on the first whitespace-delimited token of the
\* command only: the command is rejected if the token matches a deny pattern,
\* otherwise allowed if the allow list is empty or the token matches an allow
\* pattern, otherwise rejected; a pattern ending in * matches a token that starts
\* with what precedes the *, any other pattern the token equal to it.
C24_command_guard ==
    CommandCheck =>
       \A i \in 1..(Len(last.command) + 1) :
          \A k \in 0..(Len(last.command) + 1 - i) :
             LET tok == SubSeq(last.command, i, i + k - 1)
             IN  IsFirstToken(last.command, tok)
                 => (last.allowed <=>
                       /\ ~TokenMatchesSome(tok, last.deny)
                       /\ last.allow = <<>> \/ TokenMatchesSome(tok, last.allow))

\* A command whose token matches both an allow and a deny pattern was rejected.
C24_witness ==
    /\ CommandCheck
    /\ ~last.allowed
    /\ last.command = <<" ", "r", "m", " ", "f">>
    /\ last.allow = <<Star>>
    /\ last.deny = <<RmStar>>

\* The leading keyword of a statement: the letters with which the trimmed statement
\* starts, up to its first character that is no letter.
IsLetter(c) == \E i \in 1..Len(LowerCase) : c \in {LowerCase[i], UpperCase[i]}
LeadingKeyword(sql) ==
    LET t == trim(sql)
        others == {i \in 1..Len(t) : ~IsLetter(t[i])}
    IN  SubSeq(t, 1, IF others = {} THEN Len(t) ELSE Least(others) - 1)
ReadOnlyKeywords ==
    { <<"S", "E", "L", "E", "C", "T">>,
      <<"W", "I", "T", "H">>,
      <<"E", "X", "P", "L", "A", "I", "N">>,
      <<"S", "H", "O", "W">>,
      <<"D", "E", "S", "C", "R", "I", "B", "E">>,
      <<"D", "E", "S", "C">>,
      <<"P", "R", "A", "G", "M", "A">> }
StatementCheck == last.kind = "statement"

\* C25 (as stated): the statement guard allows every statement in full-access mode;
\* in read-only mode it allows a statement if and only if the leading keyword of the
\* trimmed statement, compared without regard to case, is one of select, with,
\* explain, show, describe, desc, pragma.
C25_statement_guard ==
    StatementCheck =>
       /\ last.mode = FullAccess => last.allowed
       /\ last.mode = ReadOnly
          => (last.allowed <=>
                to_uppercase(LeadingKeyword(last.sql)) \in ReadOnlyKeywords)

\* ---------------------------------------------------------------------------
\* Filesystem backend: path containment.
\* A path is its sequence of components (std::path::Components): RootDir first
\* when the path is absolute, then names and ParentDir components.
RootDir == "/"
ParentDir == ".."
Tilde == "~"
Root == <<RootDir>>
is_absolute(p) == Len(p) > 0 /\ p[1] = RootDir
\* Path::join: an absolute argument replaces the base
path_join(base, p) == IF is_absolute(p) THEN p ELSE base \o p
\* Path::starts_with compares whole components
path_starts_with(p, base) ==
    /\ Len(base) <= Len(p)
    /\ \A i \in 1..Len(base) : p[i] = base[i]
\* Path::parent is lexical: it drops the last component, and is None for "/"
has_parent(p) == Len(p) > 1
path_parent(p) == SubSeq(p, 1, Len(p) - 1)
file_name(p) == p[Len(p)]

\* The directory tree the process runs on: every entry under its real location.
DirNode == [kind |-> "dir", to |-> <<>>]
FileNode == [kind |-> "file", to |-> <<>>]
Symlink(to) == [kind |-> "link", to |-> to]
Sandbox == <<RootDir, "sandbox">>
Data == <<RootDir, "data">>
Etc == <<RootDir, "etc">>
Home == Data
Cwd == Sandbox
Tree0 ==
    (Root :> DirNode) @@
    (Sandbox :> DirNode) @@
    (<<RootDir, "sandbox", "a">> :> DirNode) @@
    (<<RootDir, "sandbox", "b">> :> FileNode) @@
    (<<RootDir, "sandbox", "out">> :> Symlink(Etc)) @@
    (<<RootDir, "sandbox", "gone">> :> Symlink(<<RootDir, "sandbox", "nowhere">>)) @@
    (<<RootDir, "sandboxed">> :> DirNode) @@
    (Etc :> DirNode) @@
    (<<RootDir, "etc", "passwd">> :> FileNode) @@
    (<<RootDir, "etc", "in">> :> Symlink(<<RootDir, "data">>)) @@
    (Data :> DirNode)
\* the same tree after /sandbox/new was made
Tree1 == (<<RootDir, "sandbox", "new">> :> DirNode) @@ Tree0
Trees == {Tree0, Tree1}
\* FilesystemServer::new keeps the canonical form of every --allow directory
AllowedDirs == <<Sandbox, Data>>

MaxLinks == 2
IoOk(p) == [ok |-> TRUE, path |-> p, err |-> "none"]
IoErr(kind) == [ok |-> FALSE, path |-> <<>>, err |-> kind]

\* realpath: walk the components from cur, following symbolic links
RECURSIVE resolve(_, _, _, _)
resolve(disk, cur, rest, links) ==
    IF rest = <<>> THEN IoOk(cur)
    ELSE LET c == Head(rest)
             q == cur \o <<c>>
         IN  IF c = RootDir THEN resolve(disk, Root, Tail(rest), links)
             ELSE IF c = ParentDir
                  THEN resolve(disk, IF has_parent(cur) THEN path_parent(cur) ELSE cur,
                               Tail(rest), links)
             ELSE IF q \notin DOMAIN disk THEN IoErr("NotFound")
             ELSE IF disk[q].kind = "link"
                  THEN IF links = 0 THEN IoErr("FilesystemLoop")
                       ELSE resolve(disk, cur, disk[q].to \o Tail(rest), links - 1)
             ELSE IF disk[q].kind = "file" /\ Tail(rest) # <<>>
                  THEN IoErr("NotADirectory")
             ELSE resolve(disk, q, Tail(rest), links)

\* fs::canonicalize
canonicalize(disk, p) == resolve(disk, Cwd, p, MaxLinks)
\* Path::exists follows links
exists(disk, p) == canonicalize(disk, p).ok
is_dir(disk, p) ==
    canonicalize(disk, p).ok /\ disk[canonicalize(disk, p).path].kind = "dir"

\* expand_home: a leading "~" component becomes the home directory
expand_home(p) == IF Len(p) > 0 /\ p[1] = Tilde THEN Home \o Tail(p) ELSE p
to_absolute(p) ==
    IF is_absolute(expand_home(p)) THEN expand_home(p) ELSE path_join(Cwd, expand_home(p))

is_within_allowed_first(p, allowed_dirs) ==
    Len(allowed_dirs) > 0 /\ path_starts_with(p, allowed_dirs[1])
is_within_allowed(p, allowed_dirs) ==
    \E i \in 1..Len(allowed_dirs) : path_starts_with(p, allowed_dirs[i])

PathOk(p) == [ok |-> TRUE, path |-> p, error |-> "none"]
PathErr(message) == [ok |-> FALSE, path |-> <<>>, error |-> message]
OutsideAllowed == "Access denied - path outside allowed directories"
ParentOutsideAllowed == "Access denied - parent directory outside allowed directories"
ParentMissing == "Parent directory does not exist"
CannotAccess == "Cannot access path"

validate_path(disk, path, allowed_dirs) ==
    LET absolute == to_absolute(path)
        resolved == canonicalize(disk, absolute)
    IN  IF resolved.ok
        THEN IF is_within_allowed(resolved.path, allowed_dirs)
             THEN PathOk(resolved.path)
             ELSE PathErr(OutsideAllowed)
        ELSE IF resolved.err = "NotFound" /\ has_parent(absolute)
             THEN LET parent_resolved == canonicalize(disk, path_parent(absolute))
                  IN  IF ~parent_resolved.ok THEN PathErr(ParentMissing)
                      ELSE IF ~is_within_allowed(parent_resolved.path, allowed_dirs)
                           THEN PathErr(ParentOutsideAllowed)
                      ELSE PathOk(absolute)
        ELSE PathErr(CannotAccess)

\* Candidate paths a caller may hand to a tool
Paths ==
    { Root, Sandbox, Data,
      <<RootDir, "sandbox", "b">>,
      <<RootDir, "sandbox", "a", ParentDir, "b">>,
      <<RootDir, "etc", "passwd">>,
      <<RootDir, "sandbox", "out", "passwd">>,
      <<RootDir, "sandboxed">>,
      <<RootDir, "sandbox", "new">>,
      <<RootDir, "sandbox", "new", "sub">>,
      <<RootDir, "sandbox", "x", "y">>,
      <<RootDir, "etc", "new">>,
      <<RootDir, "sandbox", "out", "new">>,
      <<RootDir, "sandbox", "new", ParentDir, ParentDir, "etc", "evil">>,
      <<"b">>,
      <<ParentDir, "etc", "passwd">>,
      <<Tilde, "f">>,
      <<RootDir, "sandbox", "b", "x">>,
      <<RootDir, "sandbox", ParentDir>>,
      <<RootDir, "sandbox", "gone">>,
      <<RootDir, "etc", "in">>,
      <<RootDir, "etc", "in", "f">> }
AllowedLists == { AllowedDirs, <<Sandbox>>, <<Data, Sandbox>> }

\* validate_path applied to a candidate path on a tree: `last` is the call that
\* returned.
PathChecked(disk, path, allowed_dirs, result) ==
    [kind |-> "path", disk |-> disk, path |-> path, allowed |-> allowed_dirs,
     result |-> result]

ValidatePath(disk, path, allowed_dirs) ==
    /\ last' = PathChecked(disk, path, allowed_dirs,
                           validate_path(disk, path, allowed_dirs))
    /\ UNCHANGED <<sessions, ttl, now, uuids, lock, task, dispVars>>

NextPath == \E disk \in Trees, path \in Paths, allowed_dirs \in AllowedLists :
               ValidatePath(disk, path, allowed_dirs)

SpecPath == InitWith(session_ttl) /\ [][NextPath]_vars

\* ---------------------------------------------------------------------------
\* Path containment properties (SpecPath)
IsDescendant(p, root) ==
    Len(p) > Len(root) /\ SubSeq(p, 1, Len(root)) = root
Contained(p, roots) ==
    \E i \in DOMAIN roots : p = roots[i] \/ IsDescendant(p, roots[i])
TargetExists == last.kind = "path" /\ exists(last.disk, to_absolute(last.path))
CanonicalForm == canonicalize(last.disk, to_absolute(last.path)).path

\* C26: for a candidate whose target exists, validate_path accepts exactly when the
\* canonical form of the absolute path is an allowed root or lies below one,
\* component by component, and every rejection is the access-denied error.
C26_path_guard ==
    TargetExists =>
        /\ last.result.ok <=> Contained(CanonicalForm, last.allowed)
        /\ ~last.result.ok => last.result.error = OutsideAllowed

\* /sandbox/a/../b resolves to /sandbox/b and is accepted; the allowed root is /sandbox
C26_witness ==
    /\ TargetExists
    /\ last.path = <<RootDir, "sandbox", "a", ParentDir, "b">>
    /\ last.allowed = <<Sandbox>>
    /\ last.result = PathOk(<<RootDir, "sandbox", "b">>)

\* ---------------------------------------------------------------------------
\* Filesystem tools. A tool returns whether it succeeded, the filesystem calls it
\* made after validation (in order) and the tree it leaves.
FsOp(op, p, to) == [op |-> op, path |-> p, to |-> to]
ToolResult(ok, ops, disk) == [ok |-> ok, ops |-> ops, disk |-> disk]
DiskResult(ok, err, disk) == [ok |-> ok, err |-> err, disk |-> disk]

\* where the entry named by p lives: the resolved directory plus the last name
locate(disk, p) ==
    IF ~has_parent(p) \/ file_name(p) = ParentDir THEN canonicalize(disk, p)
    ELSE LET d == canonicalize(disk, path_parent(p))
         IN  IF ~d.ok THEN d
             ELSE IF disk[d.path].kind # "dir" THEN IoErr("NotADirectory")
             ELSE IoOk(d.path \o <<file_name(p)>>)

\* mkdir(2)
mkdir(disk, p) ==
    LET loc == locate(disk, p)
    IN  IF ~loc.ok THEN DiskResult(FALSE, loc.err, disk)
        ELSE IF loc.path \in DOMAIN disk THEN DiskResult(FALSE, "AlreadyExists", disk)
        ELSE DiskResult(TRUE, "none", (loc.path :> DirNode) @@ disk)

\* fs::create_dir_all: mkdir, and on NotFound the parent first
RECURSIVE create_dir_all(_, _)
create_dir_all(disk, p) ==
    LET first == mkdir(disk, p)
    IN  IF first.ok THEN first
        ELSE IF first.err # "NotFound"
             THEN DiskResult(is_dir(disk, p), first.err, disk)
        ELSE IF ~has_parent(p) THEN DiskResult(FALSE, "Uncategorized", disk)
        ELSE LET above == create_dir_all(disk, path_parent(p))
                 again == mkdir(above.disk, p)
             IN  IF ~above.ok THEN above
                 ELSE IF again.ok THEN again
                 ELSE DiskResult(is_dir(above.disk, p), again.err, above.disk)

\* fs::write: create or truncate the file
fs_write(disk, p) ==
    LET loc == locate(disk, p)
    IN  IF exists(disk, p)
        THEN DiskResult(disk[canonicalize(disk, p).path].kind = "file", "IsADirectory", disk)
        ELSE IF loc.ok /\ loc.path \notin DOMAIN disk
             THEN DiskResult(TRUE, "none", (loc.path :> FileNode) @@ disk)
        ELSE DiskResult(FALSE, "NotFound", disk)

Below(disk, p) == {q \in DOMAIN disk : path_starts_with(q, p)}
\* fs::rename: the entry and everything below it moves; an existing file or empty
\* directory at the destination is replaced by an entry of the same sort
fs_rename(disk, from, to) ==
    LET src == locate(disk, from)
        dst == locate(disk, to)
        moved == {dst.path \o SubSeq(q, Len(src.path) + 1, Len(q)) : q \in Below(disk, src.path)}
        kept == DOMAIN disk \ (Below(disk, src.path) \cup {dst.path})
    IN  IF ~src.ok \/ ~dst.ok THEN DiskResult(FALSE, "NotFound", disk)
        ELSE IF src.path \notin DOMAIN disk THEN DiskResult(FALSE, "NotFound", disk)
        ELSE IF src.path = dst.path THEN DiskResult(TRUE, "none", disk)
        ELSE IF path_starts_with(dst.path, src.path) \/ path_starts_with(src.path, dst.path)
             THEN DiskResult(FALSE, "InvalidInput", disk)
        ELSE IF /\ dst.path \in DOMAIN disk
                /\ \/ (disk[src.path].kind = "dir") # (disk[dst.path].kind = "dir")
                   \/ Below(disk, dst.path) # {dst.path}
             THEN DiskResult(FALSE, "DirectoryNotEmpty", disk)
        ELSE DiskResult(TRUE, "none",
                 [q \in kept \cup moved |->
                     IF q \in moved
                     THEN disk[src.path \o SubSeq(q, Len(dst.path) + 1, Len(q))]
                     ELSE disk[q]])

\* format!("{}.{}.tmp", valid_path.display(), std::process::id())
temp_path(p) ==
    IF has_parent(p) THEN path_parent(p) \o <<file_name(p) \o ".1.tmp">>
    ELSE <<RootDir, ".1.tmp">>

\* the tools that validate and then only read: read_file, list_directory,
\* list_directory_with_sizes, directory_tree, search_files, get_file_info
ReadTools ==
    { "read_file", "list_directory", "list_directory_with_sizes", "directory_tree",
      "search_files", "get_file_info" }
read_op(tool) ==
    CASE tool = "read_file" -> "read"
      [] tool = "get_file_info" -> "metadata"
      [] OTHER -> "read_dir"
read_tool(tool, disk, path, allowed_dirs) ==
    LET valid_path == validate_path(disk, path, allowed_dirs)
    IN  IF ~valid_path.ok THEN ToolResult(FALSE, <<>>, disk)
        ELSE ToolResult((read_op(tool) = "read_dir") = is_dir(disk, valid_path.path),
                        <<FsOp(read_op(tool), valid_path.path, <<>>)>>, disk)

write_file(disk, path, allowed_dirs) ==
    LET valid_path == validate_path(disk, path, allowed_dirs)
        written == fs_write(disk, temp_path(valid_path.path))
        renamed == fs_rename(written.disk, temp_path(valid_path.path), valid_path.path)
    IN  IF ~valid_path.ok THEN ToolResult(FALSE, <<>>, disk)
        ELSE IF ~written.ok
             THEN ToolResult(FALSE, <<FsOp("write", temp_path(valid_path.path), <<>>)>>, disk)
        ELSE ToolResult(renamed.ok,
                        <<FsOp("write", temp_path(valid_path.path), <<>>),
                          FsOp("rename", temp_path(valid_path.path), valid_path.path)>>,
                        renamed.disk)

edit_file(disk, path, dry_run, allowed_dirs) ==
    LET valid_path == validate_path(disk, path, allowed_dirs)
        read == FsOp("read", valid_path.path, <<>>)
        written == fs_write(disk, temp_path(valid_path.path))
        renamed == fs_rename(written.disk, temp_path(valid_path.path), valid_path.path)
    IN  IF ~valid_path.ok THEN ToolResult(FALSE, <<>>, disk)
        ELSE IF ~exists(disk, valid_path.path) \/ is_dir(disk, valid_path.path)
             THEN ToolResult(FALSE, <<read>>, disk)
        ELSE IF dry_run THEN ToolResult(TRUE, <<read>>, disk)
        ELSE IF ~written.ok
             THEN ToolResult(FALSE,
                             <<read, FsOp("write", temp_path(valid_path.path), <<>>)>>, disk)
        ELSE ToolResult(renamed.ok,
                        <<read, FsOp("write", temp_path(valid_path.path), <<>>),
                          FsOp("rename", temp_path(valid_path.path), valid_path.path)>>,
                        renamed.disk)

\* create_directory: walk up to the first ancestor that exists
RECURSIVE first_existing(_, _)
first_existing(disk, check_path) ==
    IF exists(disk, check_path) \/ ~has_parent(check_path) THEN check_path
    ELSE first_existing(disk, path_parent(check_path))

create_directory(disk, path, allowed_dirs) ==
    LET absolute == to_absolute(path)
        check_path == first_existing(disk, absolute)
        created == create_dir_all(disk, absolute)
    IN  IF /\ exists(disk, check_path)
           /\ ~is_within_allowed(canonicalize(disk, check_path).path, allowed_dirs)
        THEN ToolResult(FALSE, <<>>, disk)
        ELSE ToolResult(created.ok, <<FsOp("create_dir_all", absolute, <<>>)>>, created.disk)

move_file(disk, source, destination, allowed_dirs) ==
    LET valid_source == validate_path(disk, source, allowed_dirs)
        valid_dest == validate_path(disk, destination, allowed_dirs)
        renamed == fs_rename(disk, valid_source.path, valid_dest.path)
    IN  IF ~valid_source.ok \/ ~valid_dest.ok THEN ToolResult(FALSE, <<>>, disk)
        ELSE ToolResult(renamed.ok,
                        <<FsOp("rename", valid_source.path, valid_dest.path)>>,
                        renamed.disk)

\* A tool call that returned: the tree it ran on, its paths, and what it did.
ToolCalled(tool, disk, paths, result) ==
    [kind |-> "tool", tool |-> tool, disk |-> disk, paths |-> paths,
     ok |-> result.ok, ops |-> result.ops, after |-> result.disk]

ReadTool(tool, disk, path) ==
    /\ last' = ToolCalled(tool, disk, <<path>>, read_tool(tool, disk, path, AllowedDirs))
    /\ UNCHANGED <<sessions, ttl, now, uuids, lock, task, dispVars>>
WriteFile(disk, path) ==
    /\ last' = ToolCalled("write_file", disk, <<path>>,
                          write_file(disk, path, AllowedDirs))
    /\ UNCHANGED <<sessions, ttl, now, uuids, lock, task, dispVars>>
EditFile(disk, path, dry_run) ==
    /\ last' = ToolCalled("edit_file", disk, <<path>>,
                          edit_file(disk, path, dry_run, AllowedDirs))
    /\ UNCHANGED <<sessions, ttl, now, uuids, lock, task, dispVars>>
CreateDirectory(disk, path) ==
    /\ last' = ToolCalled("create_directory", disk, <<path>>,
                          create_directory(disk, path, AllowedDirs))
    /\ UNCHANGED <<sessions, ttl, now, uuids, lock, task, dispVars>>
MoveFile(disk, source, destination) ==
    /\ last' = ToolCalled("move_file", disk, <<source, destination>>,
                          move_file(disk, source, destination, AllowedDirs))
    /\ UNCHANGED <<sessions, ttl, now, uuids, lock, task, dispVars>>

NextTools ==
    \E disk \in Trees, path \in Paths :
        \/ \E tool \in ReadTools : ReadTool(tool, disk, path)
        \/ WriteFile(disk, path)
        \/ \E dry_run \in BOOLEAN : EditFile(disk, path, dry_run)
        \/ CreateDirectory(disk, path)
        \/ \E destination \in Paths : MoveFile(disk, path, destination)

SpecTools == InitWith(session_ttl) /\ [][NextTools]_vars

TargetMissing == last.kind = "path" /\ ~exists(last.disk, to_absolute(last.path))
NearestAncestor == first_existing(last.disk, to_absolute(last.path))

\* C27: for a candidate whose target does not exist, validate_path canonicalizes the
\* nearest ancestor that exists, however many missing levels lie in between, accepts
\* exactly when that ancestor is contained in an allowed root, and on acceptance
\* returns the requested absolute path as it was given.
C27_nearest_ancestor ==
    TargetMissing =>
        /\ last.result.ok <=>
               Contained(canonicalize(last.disk, NearestAncestor).path, last.allowed)
        /\ last.result.ok => last.result.path = to_absolute(last.path)

\* ---------------------------------------------------------------------------
\* Tool properties (SpecTools)
ToolCall == last.kind = "tool"
GuardRejects(path) == ~validate_path(last.disk, path, AllowedDirs).ok
SomeRejected == \E i \in DOMAIN last.paths : GuardRejects(last.paths[i])

\* C28: a tool makes no filesystem call on a path the guard rejects: when
\* validate_path rejects one of the paths the caller supplied, the tool reads,
\* writes, creates, lists and renames nothing and leaves the tree as it was; for
\* move_file this covers the source as well as the destination.
C28_guard_first ==
    ToolCall /\ SomeRejected => last.ops = <<>> /\ last.after = last.disk

\* the tools that call validate_path: nothing is done on a rejected path
C28_validating_tools ==
    ToolCall /\ last.tool # "create_directory" /\ SomeRejected =>
        last.ops = <<>> /\ last.after = last.disk

\* create_directory makes a directory whose real location is outside every
\* allowed root
MadeOutside ==
    /\ ToolCall
    /\ \E q \in DOMAIN last.after \ DOMAIN last.disk : ~Contained(q, AllowedDirs)

\* ---------------------------------------------------------------------------
\* TLS bootstrap. A file is missing, unreadable, or holds PEM text; a certificate
\* text names the key pair it was issued for and the time it stops being valid.
NoFile == [state |-> "missing", key |-> "none", not_after |-> 0]
Unreadable == [state |-> "unreadable", key |-> "none", not_after |-> 0]
CertPem(key, not_after) == [state |-> "cert", key |-> key, not_after |-> not_after]
KeyPem(key) == [state |-> "key", key |-> key, not_after |-> 0]
NoPath == [state |-> "none", key |-> "none", not_after |-> 0]
\* KeyPair::generate: a key pair no file holds yet
FreshKey == "fresh"
ValidityDays == 365
Clock == {1, 400}
CertArgs == {NoPath, NoFile, CertPem("given", 500)}
KeyArgs == {NoPath, NoFile, KeyPem("given")}
CacheCerts == {NoFile, Unreadable, CertPem("cached", 366), CertPem("cached", 900)}
CacheKeys == {NoFile, Unreadable, KeyPem("cached")}

Cache(cert, key) == [cert |-> cert, key |-> key]
TlsConfig(cert_pem, key_pem, is_self_signed) ==
    [cert_pem |-> cert_pem, key_pem |-> key_pem, is_self_signed |-> is_self_signed]
TlsOk(config, ops, cache) ==
    [ok |-> TRUE, config |-> config, error |-> "none", ops |-> ops, cache |-> cache]
TlsErr(message, ops, cache) ==
    [ok |-> FALSE, config |-> TlsConfig(NoFile, NoFile, FALSE), error |-> message,
     ops |-> ops, cache |-> cache]

\* Path::exists
file_exists(file) == file.state # "missing"
\* fs::read_to_string succeeds
readable(file) == file.state \in {"cert", "key"}

\* load_from_files: the certificate is read first, the key only after it
load_from_files(cert, key, is_self_signed, cache) ==
    IF ~readable(cert)
    THEN TlsErr("Failed to read certificate file", <<"read cert">>, cache)
    ELSE IF ~readable(key)
         THEN TlsErr("Failed to read key file", <<"read cert", "read key">>, cache)
    ELSE TlsOk(TlsConfig(cert, key, is_self_signed), <<"read cert", "read key">>, cache)

is_cert_expired(cert_pem, at) == FALSE

generate_self_signed(at) ==
    TlsConfig(CertPem(FreshKey, at + ValidityDays), KeyPem(FreshKey), TRUE)

load_or_generate_self_signed_uncached(cache, at) ==
    TlsOk(generate_self_signed(at), <<>>, cache)

load_or_generate_self_signed(cache, at) ==
    LET loaded == load_from_files(cache.cert, cache.key, TRUE, cache)
        tried == IF file_exists(cache.cert) /\ file_exists(cache.key)
                 THEN loaded.ops ELSE <<>>
        config == generate_self_signed(at)
    IN  IF /\ file_exists(cache.cert) /\ file_exists(cache.key)
           /\ loaded.ok
           /\ ~is_cert_expired(loaded.config.cert_pem, at)
        THEN loaded
        ELSE TlsOk(config, tried \o <<"write cert", "write key">>,
                   Cache(config.cert_pem, config.key_pem))

load_or_generate(cert_path, key_path, cache, at) ==
    IF cert_path # NoPath /\ key_path # NoPath
    THEN load_from_files(cert_path, key_path, FALSE, cache)
    ELSE IF cert_path = NoPath /\ key_path = NoPath
         THEN load_or_generate_self_signed(cache, at)
    ELSE TlsErr("Both --cert and --key must be provided together", <<>>, cache)

\* The bootstrap run at time `at` with the given arguments on the given cache:
\* `last` is the call that returned.
Bootstrapped(cert_path, key_path, cache, at, result) ==
    [kind |-> "tls", cert_path |-> cert_path, key_path |-> key_path, cache |-> cache,
     at |-> at, result |-> result]

LoadOrGenerate(cert_path, key_path, cert, key, at) ==
    /\ last' = Bootstrapped(cert_path, key_path, Cache(cert, key), at,
                            load_or_generate(cert_path, key_path, Cache(cert, key), at))
    /\ UNCHANGED <<sessions, ttl, now, uuids, lock, task, dispVars>>

NextTls ==
    \E cert_path \in CertArgs, key_path \in KeyArgs, cert \in CacheCerts,
       key \in CacheKeys, at \in Clock :
        LoadOrGenerate(cert_path, key_path, cert, key, at)

SpecTls == InitWith(session_ttl) /\ [][NextTls]_vars

\* ---------------------------------------------------------------------------
\* TLS bootstrap properties (SpecTls)
Bootstrap == last.kind = "tls"
BothGiven == last.cert_path # NoPath /\ last.key_path # NoPath
NeitherGiven == last.cert_path = NoPath /\ last.key_path = NoPath
CachePresent == file_exists(last.cache.cert) /\ file_exists(last.cache.key)
CacheReadable == readable(last.cache.cert) /\ readable(last.cache.key)
ReturnsCached ==
    /\ last.result.ok
    /\ last.result.config = TlsConfig(last.cache.cert, last.cache.key, TRUE)
    /\ last.result.cache = last.cache
Regenerates ==
    /\ last.result.ok
    /\ last.result.config = TlsConfig(CertPem(FreshKey, last.at + ValidityDays),
                                      KeyPem(FreshKey), TRUE)
    /\ last.result.cache = Cache(last.result.config.cert_pem, last.result.config.key_pem)
Did(op) == \E i \in DOMAIN last.result.ops : last.result.ops[i] = op
LoadsGiven ==
    /\ Did("read cert")
    /\ readable(last.cert_path) => Did("read key")
    /\ last.result.cache = last.cache
    /\ readable(last.cert_path) /\ readable(last.key_path) =>
           /\ last.result.ok
           /\ last.result.config = TlsConfig(last.cert_path, last.key_path, FALSE)
RefusesOne ==
    /\ ~last.result.ok
    /\ last.result.ops = <<>>
    /\ last.result.cache = last.cache

CachedExpired ==
    /\ Bootstrap /\ NeitherGiven /\ CachePresent /\ CacheReadable
    /\ last.cache.cert.not_after < last.at

\* C30: a cached identity whose certificate has expired is not returned: the
\* bootstrap generates a new self-signed identity, overwrites the cache with it and
\* returns the new one.
C30_expired_regenerated == CachedExpired => Regenerates

\* ---------------------------------------------------------------------------
\* The local channel (SpecStdio)
\* A line is a request when it is a JSON object with a string jsonrpc member and a
\* string method member.
IsRequestLine(l) ==
    /\ l.t = "obj"
    /\ "jsonrpc" \in DOMAIN l.o /\ l.o["jsonrpc"].t = "str"
    /\ "method" \in DOMAIN l.o /\ l.o["method"].t = "str"
IsParseError(r) ==
    /\ r # NoResponse
    /\ r.id = Absent
    /\ r.result = Absent
    /\ is_some(r.error)
    /\ r.error.code = -32700
\* the turn of the loop that read line l
Turn(l) == ReadLine(l) /\ line' = l

LineMethod(l) == l.o["method"].s
\* the lines the loop owes an output line: every line that is not empty, except the
\* requests with one of the two notification methods
OwesOutput(l) ==
    /\ l # EmptyLine
    /\ IsRequestLine(l) => LineMethod(l) \notin {"initialized", "notifications/initialized"}

\* C32: a turn of the loop writes the output for the line it read before the next
\* line is read: one line exactly when the line owes one; tools/list and tools/call
\* are answered, with the id of the line, whatever was read before; and at the end
\* of input the loop stops for good without writing.
C32_sequential ==
    [][ /\ Turn(line') =>
             /\ dresp' # NoResponse <=> OwesOutput(line')
             /\ IsRequestLine(line') /\ LineMethod(line') \in {"tools/list", "tools/call"} =>
                    dresp' # NoResponse /\ dresp'.id = LineId(line')
        /\ running' => running
        /\ running /\ ~running' => UNCHANGED <<line, dreq, dresp, calls>>
      ]_vars

\* a tools/call was answered with a result and the loop is running
C32_witness ==
    /\ running
    /\ line = RequestLine(JsonRpcRequest(JNum(1), "tools/call", ToolCallParams))
    /\ dresp # NoResponse
    /\ dresp.id = JNum(1)
    /\ is_some(dresp.result)

\* ------------------------------------------------------------------ C33
\* C33: while the HTTP server runs the cleanup task is always at its next sweep,
\* whatever the handlers do, and under fair scheduling of that task a session that
\* has gone untouched for longer than the TTL does not stay in the store: it is
\* removed, unless a touch refreshes it first.
Swept(i) == i \notin DOMAIN sessions
Refreshed(i) == i \in DOMAIN sessions /\ Age(sessions, i) <= ttl
C33_sweep ==
    /\ [](task[Sweeper] = SweepLoop /\ lock[Sweeper] = "none")
    /\ \A i \in 1..MaxIds : ExpiredUnswept(i) ~> (Swept(i) \/ Refreshed(i))
\* The cleanup task has swept the one session of the store, which no request had
\* touched for longer than the TTL.
C33_witness ==
    /\ last = Returned("cleanup_expired", 0, Usize(1))
    /\ uuids = 1 /\ Swept(1) /\ now > ttl

\* ------------------------------------------------------------------ C34
\* Handler t, whose POST (not initialize) or GET has passed validate_session, ends
\* the touch_session it awaited.
HandlerTouch(t) ==
    /\ task[t].caller \in {"POST", "GET"}
    /\ task[t].pc = "call"
    /\ task[t].op = "touch_session"
    /\ task'[t] # task[t]
\* Handler t hands its request to the dispatcher and answers, or opens its stream.
Serves(t) ==
    /\ task'[t] # task[t]
    /\ \/ /\ task[t].caller = "POST" /\ task[t].req.method # "initialize"
          /\ last'.kind = "http" /\ last'.status \in {200, 202}
       \/ task[t].caller = "GET" /\ task'[t].pc = "stream"
\* The store after the step is the store before it with last_activity of record i,
\* if there is one, set to the clock's reading: no record comes or goes, created_at
\* and initialized of record i and all other records are as before.
OnlyActivitySet(i) ==
    /\ DOMAIN sessions' = DOMAIN sessions
    /\ \A j \in DOMAIN sessions :
          sessions'[j] = IF j = i THEN [sessions[j] EXCEPT !.last_activity = now]
                                 ELSE sessions[j]
\* C34 as stated: every POST with a method other than initialize and every GET
\* that has passed session validation sets that session's last_activity to the
\* current time in the step in which it goes on to dispatch or to open the stream,
\* and changes nothing else in the store.
C34_touch ==
    [][ \A t \in Handlers :
          /\ Serves(t) => HandlerTouch(t)
          /\ HandlerTouch(t) =>
                /\ Serves(t)
                /\ task[t].arg \in DOMAIN sessions'
                /\ sessions'[task[t].arg].last_activity = now
                /\ OnlyActivitySet(task[t].arg) ]_vars
\* C34, amended: the handler touches the session it validated before it dispatches
\* or opens the stream, and the touch changes last_activity of that record and
\* nothing else; when the record was removed after the validation the touch changes
\* nothing and the handler goes on all the same.
C34_touch_amended ==
    [][ \A t \in Handlers :
          /\ Serves(t) => HandlerTouch(t)
          /\ HandlerTouch(t) =>
                /\ Serves(t)
                /\ OnlyActivitySet(task[t].arg)
                /\ task[t].arg \in DOMAIN sessions =>
                      sessions'[task[t].arg].last_activity = now ]_vars
\* A POST tools/list was answered 200 for an initialized session that the touch has
\* just refreshed: its last_activity is the current time, later than its creation.
C34_witness ==
    /\ last.kind = "http" /\ last.verb = "POST" /\ last.method = "tools/list"
    /\ last.status = 200 /\ last.sid.some
    /\ last.sid.v \in DOMAIN sessions
    /\ sessions[last.sid.v].last_activity = now
    /\ sessions[last.sid.v].created_at < now
    /\ sessions[last.sid.v].initialized

\* ------------------------------------------------------------------ C35
Executed == last.kind = "exec"
GuardAllows == is_command_allowed(last.allow, last.deny, last.command)
\* C35: the shell backend hands a command to a process only if the command guard
\* allows it, and then that command to the configured shell, once; for a command
\* the guard rejects, execute_command starts nothing and returns return_code -1 with
\* the output "Command denied by security policy".
C35_guarded_spawn ==
    Executed =>
       /\ last.spawned # <<>> => GuardAllows
       /\ GuardAllows => last.spawned = <<ShellCommand(last.command)>>
       /\ ~GuardAllows =>
             /\ last.spawned = <<>>
             /\ last.result.return_code = -1
             /\ last.result.output = "Command denied by security policy"
             /\ last.result.command = last.command
\* "rm file" under allow = ["ls*"] was refused, nothing started.
C35_witness ==
    /\ Executed
    /\ last.command = <<" ", "r", "m", " ", "f">>
    /\ last.allow = <<LsStar>> /\ last.deny = <<>>
    /\ last.spawned = <<>>
    /\ last.result.return_code = -1

\* ------------------------------------------------------------------ C36
SqlCall == last.kind = "sql"
\* The SQL the caller supplied with the call, if any, and whether it was sent.
CallerSql == json_get(last.args, "sql")
CallerSqlSent ==
    /\ CallerSql # Absent /\ CallerSql.t = "str"
    /\ \E i \in 1..Len(last.sent) : last.sent[i] = CallerSql.s
ListsTool(name) == \E i \in 1..Len(last.tools) : last.tools[i] = name
Refused(text) == last.sent = <<>> /\ last.ret = ResOk(error_content(text))
\* C36: in read-only mode the SQL backend lists three tools, execute not among them
\* (four with execute in full-access mode); a call of execute is refused and sends
\* nothing; the caller's SQL is sent only by the query tool and only when
\* is_statement_allowed holds for it, a statement the guard rejects being refused.
C36_readonly ==
    SqlCall =>
       /\ Len(last.tools) = IF last.mode = ReadOnly THEN 3 ELSE 4
       /\ ListsTool("execute") <=> last.mode = FullAccess
       /\ last.mode = ReadOnly =>
             /\ last.name = "execute" /\ CallerSql # Absent /\ CallerSql.t = "str" =>
                   Refused("Write operations not allowed in readonly mode. Use --fullaccess to enable.")
             /\ last.name = "execute" => last.sent = <<>>
             /\ CallerSqlSent =>
                   /\ last.name = "query"
                   /\ is_statement_allowed(ReadOnly, CallerSql.s)
                   /\ last.sent = <<CallerSql.s>>
             /\ /\ last.name = "query" /\ CallerSql # Absent /\ CallerSql.t = "str"
                /\ ~is_statement_allowed(ReadOnly, CallerSql.s)
                => Refused("Statement not allowed in readonly mode. Only SELECT, SHOW, DESCRIBE, and EXPLAIN are permitted.")
\* In read-only mode a call of execute with an insert statement was refused, and
\* nothing was sent to the database.
C36_witness ==
    /\ SqlCall /\ last.mode = ReadOnly /\ last.name = "execute"
    /\ last.args = JObj([sql |-> JStr(<<"i", "n", "s", "e", "r", "t", " ", "1">>)])
    /\ last.sent = <<>>
    /\ last.ret.ok /\ json_get(last.ret.v, "isError") = JBool(TRUE)
\* In read-only mode the query tool has sent the select statement of the caller.
C36_query_sent ==
    /\ SqlCall /\ last.mode = ReadOnly /\ last.name = "query" /\ CallerSqlSent

\* ------------------------------------------------------------------ C37
HoldsGuard(t) == lock[t] # "none"
\* Handler t answers its request or hands it to the dispatcher in the step.
AnswersOrDispatches(t) ==
    /\ task'[t] # task[t]
    /\ last'.kind = "http" \/ calls' # <<>>
\* C37: a task holds a guard of the session store only inside one SessionManager
\* operation; no handler holds one when it has handed its request to the dispatcher
\* or answered it, nor while its event stream is open, so that whenever no task is
\* inside an operation (streams open or not) the write guard that sweep, create,
\* touch and delete need can be granted.
C37_no_guard_held ==
    /\ [](\A t \in Tasks : HoldsGuard(t) => task[t].pc = "locked")
    /\ [](\A t \in Handlers : task[t].pc = "stream" => ~HoldsGuard(t))
    /\ []((\A t \in Tasks : task[t].pc # "locked") => CanLock("write"))
    /\ [][ \A t \in Handlers :
             AnswersOrDispatches(t) \/ task'[t].pc = "stream" => lock'[t] = "none" ]_vars
\* The cleanup task holds the write guard, granted while the client's event stream
\* is open.
C37_witness ==
    /\ task[Client].pc = "stream"
    /\ lock[Sweeper] = "write"
    /\ task[Sweeper].pc = "locked"

\* ------------------------------------------------------------------ C38
\* Handler t's POST, not an initialize, is handed to the dispatcher and answered
\* 200 or 202 in the step.
ServesPost(t) == Serves(t) /\ task[t].caller = "POST"
\* Handler t takes up a POST that is not an initialize and goes on to touch session i.
GoesOnToTouch(t, i) ==
    /\ task[t].pc = "idle"
    /\ task'[t].pc = "call" /\ task'[t].caller = "POST"
    /\ task'[t].op = "touch_session" /\ task'[t].arg = i
\* C38 as stated: under any interleaving of the handlers and the cleanup task, a
\* POST with a method other than initialize is dispatched and answered 200 or 202
\* only if its session has a record when the handler touches it.
C38_served_if_present ==
    [][ \A t \in Handlers :
          ServesPost(t) => HandlerTouch(t) /\ task[t].arg \in DOMAIN sessions ]_vars
\* C38, amended: such a POST is dispatched and answered only by a handler that found
\* the session named in its header present and unexpired at its validate step, in the
\* step in which its touch returns, under the id it validated; whether the session
\* still has a record at the touch does not matter.
C38_served_if_validated ==
    [][ \A t \in Handlers :
          /\ \A i \in HeaderIds(MaxInit) :
                GoesOnToTouch(t, i) =>
                   /\ task'[t].hdr = Some(i)
                   /\ i \in DOMAIN sessions /\ Age(sessions, i) <= ttl
                   /\ sessions' = sessions
                   /\ task'[t].req.method # "initialize"
          /\ task'[t].pc = "call" /\ task'[t].op = "touch_session" /\ task[t].pc # "idle"
                => task'[t] = task[t]
          /\ ServesPost(t) =>
                /\ HandlerTouch(t)
                /\ last'.sid = Some(task[t].arg)
                /\ last'.hdr = Some(task[t].arg) ]_vars
\* A POST tools/list was answered 200 under the id of a session that has no record:
\* it was removed between the handler's validate and its touch.
C38_witness ==
    /\ last.kind = "http" /\ last.verb = "POST" /\ last.method = "tools/list"
    /\ last.status = 200 /\ last.sid.some
    /\ last.sid.v \notin DOMAIN sessions

\* ------------------------------------------------------------------ C39
\* Record i, expired before the step, is unexpired after it.
Revived(i) == ExpiredUnswept(i) /\ Live(i)'
\* The step is the return of operation o applied to id i.
ReturnedFor(o, i) == ReturnedFrom(o) /\ last'.arg = i
\* C39 as stated: once now - last_activity > ttl holds for a record, the record is
\* never unexpired again, whatever operation is applied to it, so that no later
\* validate of its id returns Ok.
C39_expired_for_good ==
    [][ \A i \in ClientIds : ~Revived(i) ]_vars
\* C39, amended: validate never returns Ok for a record with now - last_activity >
\* ttl, and such a record stays expired until it is removed unless touch_session or
\* mark_initialized is applied to it, which set last_activity to the current time
\* without looking at the expiry and make it valid again.
C39_expired_until_touched ==
    [][ \A i \in ClientIds :
          /\ ReturnedFor("validate_session", i) /\ ExpiredUnswept(i) =>
                last'.ret = Expired /\ ExpiredUnswept(i)'
          /\ Revived(i) =>
                /\ ReturnedFor("touch_session", i) \/ ReturnedFor("mark_initialized", i)
                /\ last'.ret = Ok
                /\ sessions'[i].last_activity = now ]_vars
\* validate was applied to a record that has idled longer than the TTL and returned
\* Expired; the record is still in the store.
C39_witness ==
    /\ last.kind = "call" /\ last.op = "validate_session" /\ last.ret = Expired
    /\ ExpiredUnswept(last.arg)

\* ------------------------------------------------------------------ C40
\* The host of an origin, scheme://host with an optional :port, is exactly
\* localhost or 127.0.0.1: nothing follows the name but a port.
Ports == {":3000", ":8080"}
LocalHost(origin) ==
    /\ Len(origin) \in {2, 3}
    /\ origin[1] \in {"http://", "https://"}
    /\ origin[2] \in {"localhost", "127.0.0.1"}
    /\ Len(origin) = 3 => origin[3] \in Ports
\* C40: under an allow-list that holds neither the origin nor "*", every origin
\* whose host is not exactly localhost or 127.0.0.1 is rejected with 403, those that
\* only begin with a local prefix (http://localhost.evil.com) included.
C40_local_host_exact ==
    /\ OriginCheck
    /\ last.origin \notin {NoOrigin, NotAscii}
    /\ ~contains(last.allowed, last.origin)
    /\ ~contains(last.allowed, Wildcard)
    /\ ~LocalHost(last.origin)
    => last.status = 403
\* https://localhost.evil.com has passed the check under an empty allow-list.
C40_prefix_passes ==
    /\ OriginCheck
    /\ last.origin = <<"https://", "localhost", ".evil.com">>
    /\ last.allowed = <<>>
    /\ last.status = 200

====
